---------------------------- MODULE Spec2Model ----------------------------
(***************************************************************************)
(* The real-time audio pipeline of voice-whisper: the circular sample      *)
(* store of audio_async_wasapi (audio_capture/windows/wasapi_capture.cpp)  *)
(* and of audio_async (stream/common-sdl.cpp); the fixed-step window       *)
(* scheduler and the VAD mode of stream_app/main.cpp, which read the store *)
(* from the main thread while the capture thread writes it; the queue      *)
(* pipeline of stream/main.cpp; and the packet processing (downmix, gain,  *)
(* resampling) and the start and stop of WasapiCapture's capture thread.   *)
(*                                                                         *)
(* Where the code only copies samples, the k-th sample ever delivered by   *)
(* the capture source carries the value k (k >= 1); storage that was never *)
(* written holds 0, as std::vector::resize leaves it.  Where the code      *)
(* computes with samples, a sample is its amplitude.                       *)
(*                                                                         *)
(* The program runs at 16000 samples per second, 16 samples per            *)
(* millisecond.  The model keeps the code's arithmetic                     *)
(* (sample_rate * ms) / 1000 and scales the rate to ModelSampleRate, one   *)
(* sample per millisecond, so that a buffer of a few milliseconds is a     *)
(* few samples long.                                                       *)
(***************************************************************************)
EXTENDS Integers, Sequences, FiniteSets, TLC

\* ------------------------------------------------------------- bounds
\* The model's sample rate: one sample per millisecond (the program: 16000).
ModelSampleRate == 1000
\* audio_async_wasapi(len_ms): buffers of 1 .. MaxLenMs milliseconds.
MaxLenMs == 2
\* The largest number of samples one callback delivers to the two buffers.
MaxPush == 4
\* The number of samples the capture source delivers in a run.
MaxTotal == 5
\* --step and --length as given on the command line.
MaxStepMs == 3
MaxLengthMs == 4
\* The bits of the mantissa of a double (the program: 53).
MantissaBits == 8
\* The largest number of samples in one packet of the capture thread.
MaxPacket == 3
\* params.keep_ms, which no option sets (the program: 200).
DefaultKeepMs == 1
\* VAD mode: the milliseconds fetched for vad_simple and the least t_diff
\* of a poll (the program: 2000 for both), and its last_ms (the program:
\* 1000).
VadWindowMs == 4
VadLastMs == 2
\* VAD mode: -l, the sample values 0 .. MaxAmplitude, the samples in one
\* packet, the samples delivered in a run, the windows dispatched in a run.
MaxVadLengthMs == 4
MaxAmplitude == 1
MaxVadPush == 2
MaxVadTotal == 4
MaxVadIter == 2
\* VAD mode: the sleep between two looks at the clock (the program: 100 ms),
\* and the wall time a run lasts, both in the unit of VadWindowMs.
VadSleepMs == 1
MaxClock == 6
\* AudioBuffer::MAX_SIZE, the most chunks the queue holds (the program: 100).
MAX_SIZE == 2
\* The largest number of samples in one chunk handed to audio_data_callback.
MaxChunk == 2
\* The number of samples the capture thread of stream/main.cpp delivers.
MaxQTotal == 4
\* --step-ms and --length-ms of stream/main.cpp.
MaxQStepMs == 2
MaxQLengthMs == 3
\* capture_proc: nChannels of the mix format; its nSamplesPerSec in halves of
\* the target rate, 0 .. MaxRateHalves; a sample is k/SampleUnit with k in
\* -1 .. MaxLevel; the interleaved samples the packets of a run hold.
MaxChannels == 2
MaxRateHalves == 4
MaxLevel == 3
SampleUnit == 20
MaxData == 4
\* The capture threads one WasapiCapture object creates in a run.
MaxThreads == 4

Min(a, b) == IF a < b THEN a ELSE b
Max(a, b) == IF a > b THEN a ELSE b

\* The samples numbered lo .. lo+n-1 of the capture stream, in order.
Run(lo, n) == [i \in 1..n |-> lo + i - 1]

\* ---------------------------------------------------------- constants
COMMON_SAMPLE_RATE == ModelSampleRate
sample_rate_ == COMMON_SAMPLE_RATE
m_sample_rate == COMMON_SAMPLE_RATE

VARIABLES
    \* audio_async_wasapi
    len_ms_, wasapi_handle_, running_, audio_buffer_, buffer_pos_, buffer_len_,
    w_result,
    \* audio_async (SDL), from init() on
    m_audio, m_audio_pos, m_audio_len, s_result,
    \* the process: memory written outside a storage array, abnormal end
    w_overrun, s_overrun, crashed,
    \* history: samples delivered so far, samples delivered since the last
    \* clear, whether some delivery exceeded the capacity, the last call
    pushed, since, oversize, op,
    \* stream_app/main.cpp: params after the clamps of keep and length
    step_ms, length_ms, keep_ms,
    \* the mutex of audio_async_wasapi, the capture thread and the packet it
    \* is delivering, the main thread and where audio.clear() returns to
    mutex_, pc_capture, pending, pc_main, after_clear,
    \* main's vectors and iteration count
    pcmf32_new, pcmf32_old, pcmf32, n_iter,
    \* history: samples whose push has completed, that count when get took
    \* the lock, the new samples of the windows dispatched so far
    completed, get_mark, dispatched,
    \* stream_app/main.cpp: params.no_context, prompt_tokens; whether the
    \* ESC key is held down; whether audio.resume() returned false
    no_context, prompt_tokens, stop_requested, resume_failed,
    \* history: the prompt handed to the engine with each window, the values
    \* of n_iter at which the hard segmentation boundary was taken
    handed, boundaries,
    \* stream_app/main.cpp, VAD mode: params.vad_thold as a fraction, the
    \* last answer of vad_simple
    vad_thold, vad_answer,
    \* the wall clock; t_now and t_last of the VAD branch; history: the wall
    \* time of the latest call of vad_simple, -1 before the first
    clock, t_now, t_last, t_gate,
    \* stream/main.cpp: g_is_running, g_audio_buffer.queue, audio_data of the
    \* whisper thread; where the main thread, the whisper thread and the
    \* capture thread are; the samples delivered so far; history: the
    \* samples of the chunks the queue has taken, in the order of arrival
    g_is_running, queue, audio_data, pc_smain, pc_whisper, pc_cap, q_pushed,
    accepted,
    \* WasapiCapture: stop_capture_, capture_thread_, and whether the object
    \* has not been deleted yet
    stop_capture_, capture_thread_, capture_alive,
    \* WasapiCapture::capture_proc: nSamplesPerSec and nChannels of
    \* mix_format_; history: the samples of the latest packet handed to the
    \* callback as GetBuffer returned them, the samples the callback was
    \* given for it, the interleaved samples taken so far
    mix_rate, mix_channels, data, given, taken,
    \* A client of the C interface on one handle: the threads CreateThread
    \* has made for the object, each where it is in capture_proc; whether
    \* the stream of audio_client_ is started; where the client is
    threads, audio_started, pc_client

\* The variables only the window scheduler uses.
schedOnly == <<step_ms, length_ms, keep_ms, mutex_, pc_capture, pending,
               pc_main, after_clear, pcmf32_new, pcmf32_old, pcmf32, n_iter,
               completed, get_mark, dispatched, no_context, prompt_tokens,
               stop_requested, resume_failed, handed, boundaries>>

\* The scheduler's variables that few of its steps change.
ctxVars == <<no_context, prompt_tokens, stop_requested, resume_failed, handed,
             boundaries>>

\* The variables only the VAD mode of stream_app uses.
vadOnly == <<vad_thold, vad_answer, clock, t_now, t_last, t_gate>>

\* The variables only the queue-based pipeline of stream/main.cpp uses.
streamOnly == <<g_is_running, queue, audio_data, pc_smain, pc_whisper, pc_cap,
                q_pushed, accepted, stop_capture_, capture_thread_,
                capture_alive>>

\* The variables only the two-buffer harness uses.
\* The variables only the packet processing of capture_proc uses.
dspOnly == <<mix_rate, mix_channels, data, given, taken>>

\* The variables only the client of the C interface uses.
apiOnly == <<threads, audio_started, pc_client>>

ringOnly == <<w_result, m_audio, m_audio_pos, m_audio_len, s_result,
              s_overrun, since, op>>

ringVars == <<len_ms_, wasapi_handle_, running_, audio_buffer_, buffer_pos_,
              buffer_len_, w_result, m_audio, m_audio_pos, m_audio_len,
              s_result, w_overrun, s_overrun, crashed, pushed, since,
              oversize, op>>

vars == <<ringVars, schedOnly, vadOnly, streamOnly, dspOnly, apiOnly>>

\* ------------------------------------------------------- storage, memcpy
\* audio_buffer_.resize((sample_rate_ * len_ms_) / 1000): zero-filled floats.
NewStorage(len_ms) == [i \in 0..((sample_rate_ * len_ms) \div 1000) - 1 |-> 0]

Size(buf) == Cardinality(DOMAIN buf)

\* memcpy(&buf[dst], src + off, n * sizeof(float)), src a sequence of samples.
\* Only the part that falls inside the array is part of the object.
Memcpy(buf, dst, src, off, n) ==
    [i \in DOMAIN buf |->
        IF dst <= i /\ i < dst + n THEN src[off + (i - dst) + 1] ELSE buf[i]]

\* Whether that memcpy writes past the end of the array.
MemcpyOverruns(buf, dst, n) == n > 0 /\ dst + n > Size(buf)

\* ------------------------------------------------- audio_async_wasapi
\* A wrapping copy whose second memcpy starts again at the head of the source.
WasapiWriteSameSource(buf, pos, s) ==
    LET frames == Len(s)
        size == Size(buf)
    IN  IF pos + frames > size
        THEN LET n0 == size - pos
             IN  Memcpy(Memcpy(buf, pos, s, 0, n0), 0, s, 0, frames - n0)
        ELSE Memcpy(buf, pos, s, 0, frames)

\* audio_callback_wrapper, the two memcpy of either branch.
WasapiWrite(buf, pos, s) ==
    LET frames == Len(s)
        size == Size(buf)
    IN  IF pos + frames > size
        THEN LET n0 == size - pos
             IN  Memcpy(Memcpy(buf, pos, s, 0, n0), 0, s, n0, frames - n0)
        ELSE Memcpy(buf, pos, s, 0, frames)

WasapiWriteOverruns(buf, pos, frames) ==
    LET size == Size(buf)
    IN  IF pos + frames > size
        THEN MemcpyOverruns(buf, 0, frames - (size - pos))
        ELSE MemcpyOverruns(buf, pos, frames)

\* A position advanced without the reduction modulo the capacity.
WasapiNextPosNoWrap(pos, frames, size) == pos + frames

\* audio_callback_wrapper, the update of buffer_pos_.
WasapiNextPos(pos, frames, size) == (pos + frames) % size

\* A length advanced without the clamp to the capacity.
WasapiNextLenNoClamp(pos, len, frames, size) ==
    IF pos + frames > size THEN size ELSE len + frames

\* A length set to the capacity by every delivery.
WasapiNextLenFull(pos, len, frames, size) == size

\* audio_callback_wrapper, the update of buffer_len_.
WasapiNextLen(pos, len, frames, size) ==
    IF pos + frames > size THEN size ELSE Min(len + frames, size)

\* A get that returns every valid sample, whatever ms asks for.
WasapiGetCountAll(ms, len_ms, len) == len

\* audio_async_wasapi::get, the number of samples returned.
WasapiGetCount(ms, len_ms, len) ==
    LET ms1 == IF ms <= 0 THEN len_ms ELSE ms
        n_samples == (sample_rate_ * ms1) \div 1000
    IN  IF n_samples > len THEN len ELSE n_samples

\* audio_async_wasapi::get under the lock: the copy out of the ring.
WasapiGet(buf, pos, len, ms, len_ms) ==
    LET size == Size(buf)
        n_samples == WasapiGetCount(ms, len_ms, len)
        s00 == pos - n_samples
        s0 == IF s00 < 0 THEN s00 + size ELSE s00
    IN  IF s0 + n_samples > size
        THEN LET n0 == size - s0
             IN  [i \in 1..n_samples |->
                    IF i <= n0 THEN buf[s0 + i - 1] ELSE buf[i - n0 - 1]]
        ELSE [i \in 1..n_samples |-> buf[s0 + i - 1]]

\* A get that takes the samples it returns out of the buffer.
WasapiAfterGetConsumed(pos, len, n) == [pos |-> pos, len |-> len - n]

\* audio_async_wasapi::get: the indices after the call, which reads them
\* and the storage and writes only its result.
WasapiAfterGet(pos, len, n) == [pos |-> pos, len |-> len]

\* ------------------------------------------------- audio_async (SDL)
\* audio_async::callback, the two memcpy of either branch.
SdlWrite(buf, pos, s) ==
    LET n_samples == Len(s)
        size == Size(buf)
    IN  IF pos + n_samples > size
        THEN LET n0 == size - pos
             IN  Memcpy(Memcpy(buf, pos, s, 0, n0), 0, s, n0, n_samples - n0)
        ELSE Memcpy(buf, pos, s, 0, n_samples)

SdlWriteOverruns(buf, pos, n_samples) ==
    LET size == Size(buf)
    IN  IF pos + n_samples > size
        THEN MemcpyOverruns(buf, 0, n_samples - (size - pos))
        ELSE MemcpyOverruns(buf, pos, n_samples)

\* audio_async::callback, the update of m_audio_pos.
SdlNextPos(pos, n_samples, size) ==
    LET p == IF pos + n_samples > size
             THEN n_samples - (size - pos)
             ELSE pos + n_samples
    IN  IF p >= size THEN 0 ELSE p

\* audio_async::callback, the update of m_audio_len.
SdlNextLen(len, n_samples, size) == size

\* audio_async::get: the result vector after the call.
SdlGet(buf, pos, len, ms, len_ms) ==
    LET size == Size(buf)
        ms1 == IF ms <= 0 THEN len_ms ELSE ms
        n_samples == (m_sample_rate * ms1) \div 1000
        p == IF pos > n_samples THEN pos - n_samples
                                ELSE size - (n_samples - pos)
    IN  IF n_samples > len
        THEN << >>
        ELSE IF p + n_samples <= size
             THEN [i \in 1..n_samples |-> buf[p + i - 1]]
             ELSE LET n0 == size - p
                  IN  [i \in 1..n_samples |->
                         IF i <= n0 THEN buf[p + i - 1] ELSE buf[i - n0 - 1]]

\* ------------------------------------------------- the two buffers, driven
\* by one sequence of calls
\* The latest call: its name, the samples it was given or asked for, the
\* value it returned (TRUE for a call that returns nothing).
NoOp == [name |-> "none", n |-> 0, ret |-> TRUE]

Called(name, n, ret) == [name |-> name, n |-> n, ret |-> ret]

\* A stream that is started whatever its state.
AudioClientStartAlways(started) == TRUE

\* audio_client_->Start() as start() tests it: IAudioClient::Start fails
\* with AUDCLNT_E_NOT_STOPPED on a stream that is not stopped.
AudioClientStart(started) == ~started

\* The scheduler's variables while no scheduler runs.
SchedIdle ==
    /\ step_ms = 0 /\ length_ms = 0 /\ keep_ms = 0
    /\ mutex_ = "free" /\ pc_capture = "none" /\ pending = << >>
    /\ pc_main = "none" /\ after_clear = "none"
    /\ pcmf32_new = << >> /\ pcmf32_old = << >> /\ pcmf32 = << >>
    /\ n_iter = 0
    /\ completed = 0 /\ get_mark = 0 /\ dispatched = << >>
    /\ no_context = TRUE /\ prompt_tokens = << >>
    /\ stop_requested = FALSE /\ resume_failed = FALSE
    /\ handed = << >> /\ boundaries = << >>

\* The VAD mode's variables while stream_app does not run in VAD mode.
VadIdle ==
    /\ vad_thold = [num |-> 0, den |-> 1] /\ vad_answer = "none"
    /\ clock = 0 /\ t_now = 0 /\ t_last = 0 /\ t_gate = 0 - 1

\* The queue-based pipeline's variables while that program does not run.
StreamIdle ==
    /\ g_is_running = TRUE /\ queue = << >> /\ audio_data = << >>
    /\ pc_smain = "none" /\ pc_whisper = "none" /\ pc_cap = "none"
    /\ q_pushed = 0 /\ accepted = << >>
    /\ stop_capture_ = FALSE /\ capture_thread_ = "null"
    /\ capture_alive = FALSE

\* The packet processing's variables while no packet is processed.
DspIdle ==
    /\ mix_rate = COMMON_SAMPLE_RATE /\ mix_channels = 1
    /\ data = << >> /\ given = << >> /\ taken = 0

\* The variables of the client of the C interface while there is none.
ApiIdle ==
    /\ threads = << >> /\ audio_started = FALSE /\ pc_client = "none"

RingInit ==
    /\ len_ms_ \in 1..MaxLenMs
    /\ wasapi_handle_ = FALSE
    /\ running_ = FALSE
    /\ audio_buffer_ = NewStorage(len_ms_)
    /\ buffer_pos_ = 0
    /\ buffer_len_ = 0
    /\ w_result = << >>
    /\ m_audio = NewStorage(len_ms_)
    /\ m_audio_pos = 0
    /\ m_audio_len = 0
    /\ s_result = << >>
    /\ w_overrun = FALSE
    /\ s_overrun = FALSE
    /\ crashed = FALSE
    /\ pushed = 0
    /\ since = 0
    /\ oversize = FALSE
    /\ op = NoOp
    /\ SchedIdle
    /\ VadIdle
    /\ StreamIdle
    /\ DspIdle
    /\ ApiIdle

\* audio_async_wasapi::init: true at once with a handle; else the capture
\* handle is created and initialised, or destroyed again when
\* wasapi_capture_initialize fails.
init ==
    /\ ~crashed
    /\ \/ /\ wasapi_handle_
          /\ wasapi_handle_' = wasapi_handle_
          /\ op' = Called("init", 0, TRUE)
       \/ /\ ~wasapi_handle_
          /\ wasapi_handle_' = TRUE
          /\ op' = Called("init", 0, TRUE)
       \/ /\ ~wasapi_handle_
          /\ wasapi_handle_' = FALSE
          /\ op' = Called("init", 0, FALSE)
    /\ UNCHANGED <<len_ms_, running_, audio_buffer_, buffer_pos_, buffer_len_,
                   w_result, m_audio, m_audio_pos, m_audio_len, s_result,
                   w_overrun, s_overrun, crashed, pushed, since, oversize>>
    /\ UNCHANGED schedOnly
    /\ UNCHANGED <<streamOnly, vadOnly, dspOnly, apiOnly>>

\* A resume that is refused only on a running capture.
ResumeRefusedRunning(handle, running) == running

\* audio_async_wasapi::resume, its first test.
ResumeRefused(handle, running) == ~handle \/ running

\* audio_async_wasapi::resume: false when refused; else
\* wasapi_capture_start, which makes the capture thread, or fails on
\* audio_client_->Start() or, the stream started, on CreateThread.
resume ==
    /\ ~crashed
    /\ \/ /\ ResumeRefused(wasapi_handle_, running_)
          /\ op' = Called("resume", 0, FALSE)
          /\ UNCHANGED <<running_, threads, audio_started>>
       \/ /\ ~ResumeRefused(wasapi_handle_, running_)
          /\ AudioClientStart(audio_started)
          /\ audio_started' = TRUE
          /\ threads' = Append(threads, "loop")
          /\ running_' = TRUE
          /\ op' = Called("resume", 0, TRUE)
       \/ /\ ~ResumeRefused(wasapi_handle_, running_)
          /\ \/ UNCHANGED audio_started
             \/ AudioClientStart(audio_started) /\ audio_started' = TRUE
          /\ op' = Called("resume", 0, FALSE)
          /\ UNCHANGED <<running_, threads>>
    /\ UNCHANGED <<len_ms_, wasapi_handle_, audio_buffer_, buffer_pos_,
                   buffer_len_, w_result, m_audio, m_audio_pos, m_audio_len,
                   s_result, w_overrun, s_overrun, crashed, pushed, since,
                   oversize>>
    /\ UNCHANGED pc_client
    /\ UNCHANGED schedOnly
    /\ UNCHANGED <<streamOnly, vadOnly, dspOnly>>

\* audio_async_wasapi::pause: false when not running; else
\* wasapi_capture_stop, which returns when the capture thread has, closes
\* its handle (the thread is no more) and stops the stream.
pause ==
    /\ ~crashed
    /\ \/ /\ ~wasapi_handle_ \/ ~running_
          /\ op' = Called("pause", 0, FALSE)
          /\ UNCHANGED <<running_, threads, audio_started>>
       \/ /\ wasapi_handle_ /\ running_
          /\ threads' = << >>
          /\ audio_started' = FALSE
          /\ running_' = FALSE
          /\ op' = Called("pause", 0, TRUE)
    /\ UNCHANGED <<len_ms_, wasapi_handle_, audio_buffer_, buffer_pos_,
                   buffer_len_, w_result, m_audio, m_audio_pos, m_audio_len,
                   s_result, w_overrun, s_overrun, crashed, pushed, since,
                   oversize>>
    /\ UNCHANGED pc_client
    /\ UNCHANGED schedOnly
    /\ UNCHANGED <<streamOnly, vadOnly, dspOnly>>

\* One delivery of `frames` samples by the running capture source:
\* audio_callback_wrapper on the one buffer, audio_async::callback on the
\* other.  A memcpy past the end of a storage array is undefined: the
\* process ends there, or goes on with memory outside the array overwritten.
callback(frames) ==
    /\ ~crashed
    /\ running_
    /\ pushed + frames <= MaxTotal
    /\ LET s == Run(pushed + 1, frames)
           size == Size(audio_buffer_)
           wbad == WasapiWriteOverruns(audio_buffer_, buffer_pos_, frames)
           sbad == SdlWriteOverruns(m_audio, m_audio_pos, frames)
       IN  /\ audio_buffer_' = WasapiWrite(audio_buffer_, buffer_pos_, s)
           /\ buffer_pos_' = WasapiNextPos(buffer_pos_, frames, size)
           /\ buffer_len_' = WasapiNextLen(buffer_pos_, buffer_len_, frames, size)
           /\ m_audio' = SdlWrite(m_audio, m_audio_pos, s)
           /\ m_audio_pos' = SdlNextPos(m_audio_pos, frames, Size(m_audio))
           /\ m_audio_len' = SdlNextLen(m_audio_len, frames, Size(m_audio))
           /\ w_overrun' = (w_overrun \/ wbad)
           /\ s_overrun' = (s_overrun \/ sbad)
           /\ IF wbad \/ sbad THEN crashed' \in BOOLEAN ELSE crashed' = crashed
           /\ oversize' = (oversize \/ frames > size)
    /\ pushed' = pushed + frames
    /\ since' = since + frames
    /\ op' = Called("callback", frames, TRUE)
    /\ UNCHANGED <<len_ms_, wasapi_handle_, running_, w_result, s_result>>
    /\ UNCHANGED schedOnly
    /\ UNCHANGED <<streamOnly, vadOnly, dspOnly, apiOnly>>

\* audio_async_wasapi::get and audio_async::get, asked for `ms` milliseconds.
get(ms) ==
    /\ ~crashed
    /\ w_result' = IF ~wasapi_handle_ \/ ~running_
                   THEN << >>
                   ELSE WasapiGet(audio_buffer_, buffer_pos_, buffer_len_, ms,
                                  len_ms_)
    /\ LET w == IF ~wasapi_handle_ \/ ~running_
                THEN [pos |-> buffer_pos_, len |-> buffer_len_]
                ELSE WasapiAfterGet(buffer_pos_, buffer_len_,
                                    WasapiGetCount(ms, len_ms_, buffer_len_))
       IN  /\ buffer_pos_' = w.pos
           /\ buffer_len_' = w.len
    /\ s_result' = SdlGet(m_audio, m_audio_pos, m_audio_len, ms, len_ms_)
    /\ op' = Called("get", (sample_rate_ * (IF ms <= 0 THEN len_ms_ ELSE ms))
                              \div 1000, TRUE)
    /\ UNCHANGED <<len_ms_, wasapi_handle_, running_, audio_buffer_,
                   m_audio, m_audio_pos, m_audio_len,
                   w_overrun, s_overrun, crashed, pushed, since, oversize>>
    /\ UNCHANGED schedOnly
    /\ UNCHANGED <<streamOnly, vadOnly, dspOnly, apiOnly>>

\* A clear that empties the buffer and keeps the write position.
WasapiClearKeepsPos(handle, running, pos, len) ==
    IF ~handle \/ ~running
    THEN [pos |-> pos, len |-> len, ret |-> FALSE]
    ELSE [pos |-> pos, len |-> 0, ret |-> TRUE]

\* A clear that does not ask whether the capture runs.
WasapiClearAlways(handle, running, pos, len) ==
    [pos |-> 0, len |-> 0, ret |-> TRUE]

\* audio_async_wasapi::clear: the indices after the call and the value
\* returned.
WasapiClear(handle, running, pos, len) ==
    IF ~handle \/ ~running
    THEN [pos |-> pos, len |-> len, ret |-> FALSE]
    ELSE [pos |-> 0, len |-> 0, ret |-> TRUE]

\* audio_async::clear on an open device: the indices after the call.
SdlClear(pos, len) == [pos |-> 0, len |-> 0]

\* audio_async_wasapi::clear and audio_async::clear.
clear ==
    /\ ~crashed
    /\ LET w == WasapiClear(wasapi_handle_, running_, buffer_pos_, buffer_len_)
           s == SdlClear(m_audio_pos, m_audio_len)
       IN  /\ buffer_pos_' = w.pos
           /\ buffer_len_' = w.len
           /\ m_audio_pos' = s.pos
           /\ m_audio_len' = s.len
           /\ op' = Called("clear", 0, w.ret)
    /\ since' = IF wasapi_handle_ /\ running_ THEN 0 ELSE since
    /\ UNCHANGED <<len_ms_, wasapi_handle_, running_, audio_buffer_, w_result,
                   m_audio, s_result, w_overrun, s_overrun, crashed, pushed,
                   oversize>>
    /\ UNCHANGED schedOnly
    /\ UNCHANGED <<streamOnly, vadOnly, dspOnly, apiOnly>>

RingNext ==
    \/ init
    \/ resume
    \/ pause
    \/ \E frames \in 0..MaxPush : callback(frames)
    \/ \E ms \in 0..(MaxLenMs + 1) : get(ms)
    \/ clear

SpecRing == RingInit /\ [][RingNext]_vars

\* ------------------------------------------------- stream_app/main.cpp:
\* the fixed-step window scheduler on the main thread, the capture thread
WHISPER_SAMPLE_RATE == COMMON_SAMPLE_RATE

\* A double is m * 2^e with 0 <= m < 2^MantissaBits.
RECURSIVE Pow2(_)
Pow2(k) == IF k = 0 THEN 1 ELSE 2 * Pow2(k - 1)

RECURSIVE ExcessBits(_)
\* The bits m has beyond MantissaBits.
ExcessBits(m) ==
    IF m < Pow2(MantissaBits) THEN 0 ELSE 1 + ExcessBits(m \div 2)

\* The double nearest to m * 2^e, ties to even.
DblRound(m, e) ==
    LET k == ExcessBits(m)
        q == m \div Pow2(k)
        r == m % Pow2(k)
        up == k > 0 /\ (2 * r > Pow2(k) \/ (2 * r = Pow2(k) /\ q % 2 = 1))
        q1 == IF up THEN q + 1 ELSE q
    IN  IF q1 = Pow2(MantissaBits)
        THEN [m |-> q1 \div 2, e |-> e + k + 1]
        ELSE [m |-> q1, e |-> e + k]

RECURSIVE MilliShift(_)
\* The least k with 2^k / 1000 >= 2^(MantissaBits - 1).
MilliShift(k) ==
    IF Pow2(k) \div 1000 >= Pow2(MantissaBits - 1) THEN k
    ELSE MilliShift(k + 1)

\* The literal 1e-3: the double nearest to 1/1000.
DblMilli ==
    LET k == MilliShift(0)
    IN  [m |-> (2 * Pow2(k) + 1000) \div 2000, e |-> 0 - k]

\* double * int, the int converted exactly.
DblMulInt(f, n) == DblRound(f.m * n, f.e)

\* The conversion of a double >= 0 to int.
DblTrunc(f) ==
    IF f.e >= 0 THEN f.m * Pow2(f.e) ELSE f.m \div Pow2(0 - f.e)

\* (1e-3 * ms) * WHISPER_SAMPLE_RATE truncated to int: each product is
\* rounded to a double, and the result can fall just below the integer
\* ms * WHISPER_SAMPLE_RATE / 1000 (in the program for 4007 ms: 64111).
MsToSamples(ms) ==
    DblTrunc(DblMulInt(DblMulInt(DblMilli, ms), WHISPER_SAMPLE_RATE))

\* MsToSamples for every duration a run can be given, computed once.
SampleCounts ==
    [ms \in 0..Max(Max(MaxStepMs, MaxLengthMs),
                   Max(MaxVadLengthMs, MaxQLengthMs)) |-> MsToSamples(ms)]

n_samples_step == SampleCounts[step_ms]
n_samples_len == SampleCounts[length_ms]
n_samples_keep == SampleCounts[keep_ms]

\* const bool use_vad = n_samples_step <= 0
use_vad == n_samples_step <= 0

\* A boundary period without the "- 1".
n_new_line_whole ==
    IF ~use_vad THEN Max(1, length_ms \div step_ms) ELSE 1

\* number of steps between two hard segmentation boundaries
n_new_line ==
    IF ~use_vad THEN Max(1, (length_ms \div step_ms) - 1) ELSE 1

\* The last n elements of a vector.
Tail_n(v, n) == SubSeq(v, Len(v) - n + 1, Len(v))

\* std::lock_guard<std::mutex> lock(mutex_): the constructor returns once
\* no thread holds the mutex.
CanLockNoWait(m) == TRUE

CanLock(m) == m = "free"

\* The test that ends the wait for new audio without dispatching a short step.
EnoughNewAny(size, n_step) == size > 0

\* (int) pcmf32_new.size() >= n_samples_step
EnoughNew(size, n_step) == size >= n_step

\* (int) pcmf32_new.size() > 2*n_samples_step
TooMuchNew(size, n_step) == size > 2 * n_step

\* n_samples_take
Take(n_old, n_new) == Min(n_old, Max(0, n_samples_keep + n_samples_len - n_new))

\* A window with the new samples put before the samples carried over.
WindowNewFirst(old, new) == new \o Tail_n(old, Take(Len(old), Len(new)))

\* pcmf32 as composed from pcmf32_old and pcmf32_new.
Window(old, new) == Tail_n(old, Take(Len(old), Len(new))) \o new

\* params parsed and clamped, audio_async_wasapi audio(params.length_ms)
\* constructed: the main thread is about to call audio.init.  pcmf32 and
\* pcmf32_new are rewritten before they are first read, so they start empty.
SchedInit ==
    /\ \E s \in 1..MaxStepMs, l \in 1..MaxLengthMs :
          /\ step_ms = s
          /\ keep_ms = Min(DefaultKeepMs, s)
          /\ length_ms = Max(l, s)
    /\ no_context \in BOOLEAN
    /\ prompt_tokens = << >>
    /\ stop_requested = FALSE /\ resume_failed = FALSE
    /\ handed = << >> /\ boundaries = << >>
    /\ len_ms_ = length_ms
    /\ wasapi_handle_ = FALSE
    /\ running_ = FALSE
    /\ audio_buffer_ = NewStorage(len_ms_)
    /\ buffer_pos_ = 0
    /\ buffer_len_ = 0
    /\ w_overrun = FALSE
    /\ crashed = FALSE
    /\ pushed = 0
    /\ oversize = FALSE
    /\ mutex_ = "free"
    /\ pc_capture = "none"
    /\ pending = << >>
    /\ pc_main = "init"
    /\ after_clear = "none"
    /\ pcmf32_new = << >> /\ pcmf32_old = << >> /\ pcmf32 = << >>
    /\ n_iter = 0
    /\ completed = 0 /\ get_mark = 0 /\ dispatched = << >>
    \* the other buffer is not part of this program
    /\ w_result = << >> /\ s_result = << >>
    /\ m_audio = NewStorage(len_ms_) /\ m_audio_pos = 0 /\ m_audio_len = 0
    /\ s_overrun = FALSE /\ since = 0 /\ op = NoOp
    /\ VadIdle
    /\ StreamIdle
    /\ DspIdle
    /\ ApiIdle

\* audio.init succeeds: the capture handle is created and initialised.
AudioInitOk ==
    /\ ~crashed
    /\ pc_main = "init"
    /\ ~wasapi_handle_
    /\ wasapi_handle_' = TRUE
    /\ pc_main' = "resume"
    /\ UNCHANGED <<len_ms_, running_, audio_buffer_, buffer_pos_, buffer_len_,
                   w_overrun, crashed, pushed, oversize>>
    /\ UNCHANGED <<step_ms, length_ms, keep_ms, mutex_, pc_capture, pending,
                   after_clear, pcmf32_new, pcmf32_old, pcmf32, n_iter,
                   completed, get_mark, dispatched>>
    /\ UNCHANGED ctxVars
    /\ UNCHANGED ringOnly
    /\ UNCHANGED <<streamOnly, vadOnly, dspOnly, apiOnly>>

\* audio.init fails (wasapi_capture_create or wasapi_capture_initialize):
\* wasapi_handle_ stays null, main returns 3.
AudioInitFail ==
    /\ ~crashed
    /\ pc_main = "init"
    /\ pc_main' = "exit3"
    /\ UNCHANGED <<len_ms_, wasapi_handle_, running_, audio_buffer_,
                   buffer_pos_, buffer_len_, w_overrun, crashed, pushed,
                   oversize>>
    /\ UNCHANGED <<step_ms, length_ms, keep_ms, mutex_, pc_capture, pending,
                   after_clear, pcmf32_new, pcmf32_old, pcmf32, n_iter,
                   completed, get_mark, dispatched>>
    /\ UNCHANGED ctxVars
    /\ UNCHANGED ringOnly
    /\ UNCHANGED <<streamOnly, vadOnly, dspOnly, apiOnly>>

\* audio.resume(): wasapi_capture_start succeeds, the capture thread runs,
\* running_ = true.
ResumeOk ==
    /\ ~crashed
    /\ pc_main = "resume"
    /\ wasapi_handle_ /\ ~running_
    /\ running_' = TRUE
    /\ pc_capture' = "wait"
    /\ pc_main' = "loop"
    /\ UNCHANGED <<len_ms_, wasapi_handle_, audio_buffer_, buffer_pos_,
                   buffer_len_, w_overrun, crashed, pushed, oversize>>
    /\ UNCHANGED <<step_ms, length_ms, keep_ms, mutex_, pending, after_clear,
                   pcmf32_new, pcmf32_old, pcmf32, n_iter, completed, get_mark,
                   dispatched>>
    /\ UNCHANGED ctxVars
    /\ UNCHANGED ringOnly
    /\ UNCHANGED <<streamOnly, vadOnly, dspOnly, apiOnly>>

\* audio.resume(): wasapi_capture_start fails, resume returns false with
\* running_ still false; main does not look at the result and goes on.
ResumeFail ==
    /\ ~crashed
    /\ pc_main = "resume"
    /\ wasapi_handle_ /\ ~running_
    /\ resume_failed' = TRUE
    /\ pc_main' = "loop"
    /\ UNCHANGED <<len_ms_, wasapi_handle_, running_, audio_buffer_,
                   buffer_pos_, buffer_len_, w_overrun, crashed, pushed,
                   oversize>>
    /\ UNCHANGED <<step_ms, length_ms, keep_ms, mutex_, pc_capture, pending,
                   after_clear, pcmf32_new, pcmf32_old, pcmf32, n_iter,
                   completed, get_mark, dispatched>>
    /\ UNCHANGED <<no_context, prompt_tokens, stop_requested, handed,
                   boundaries>>
    /\ UNCHANGED ringOnly
    /\ UNCHANGED <<streamOnly, vadOnly, dspOnly, apiOnly>>

\* The user presses ESC and holds it: GetAsyncKeyState(VK_ESCAPE) reports the
\* key down from now on.
PressEsc ==
    /\ ~crashed
    /\ ~stop_requested
    /\ pc_main \notin {"init", "resume", "done", "exit3", "exit7"}
    /\ stop_requested' = TRUE
    /\ UNCHANGED <<len_ms_, wasapi_handle_, running_, audio_buffer_,
                   buffer_pos_, buffer_len_, w_overrun, crashed, pushed,
                   oversize>>
    /\ UNCHANGED <<step_ms, length_ms, keep_ms, mutex_, pc_capture, pending,
                   pc_main, after_clear, pcmf32_new, pcmf32_old, pcmf32,
                   n_iter, completed, get_mark, dispatched>>
    /\ UNCHANGED <<no_context, prompt_tokens, resume_failed, handed,
                   boundaries>>
    /\ UNCHANGED ringOnly
    /\ UNCHANGED <<streamOnly, vadOnly, dspOnly, apiOnly>>

\* capture_proc: a packet is fetched and resampled into resample_buffer,
\* no lock held; the callback is about to be called with `frames` samples.
Packet(frames) ==
    /\ ~crashed
    /\ pc_capture = "wait"
    /\ pushed + frames <= MaxTotal
    /\ pending' = Run(pushed + 1, frames)
    /\ pushed' = pushed + frames
    /\ oversize' = (oversize \/ frames > Size(audio_buffer_))
    /\ pc_capture' = "call"
    /\ UNCHANGED <<len_ms_, wasapi_handle_, running_, audio_buffer_,
                   buffer_pos_, buffer_len_, w_overrun, crashed>>
    /\ UNCHANGED <<step_ms, length_ms, keep_ms, mutex_, pc_main, after_clear,
                   pcmf32_new, pcmf32_old, pcmf32, n_iter, completed, get_mark,
                   dispatched>>
    /\ UNCHANGED ctxVars
    /\ UNCHANGED ringOnly
    /\ UNCHANGED <<streamOnly, vadOnly, dspOnly, apiOnly>>

\* audio_callback_wrapper: the lock is taken and the samples are copied in.
\* A memcpy past the end of audio_buffer_ is undefined: the process ends
\* there, or goes on with memory outside the array overwritten.
CbLockWrite ==
    /\ ~crashed
    /\ pc_capture = "call"
    /\ CanLock(mutex_)
    /\ mutex_' = "capture"
    /\ audio_buffer_' = WasapiWrite(audio_buffer_, buffer_pos_, pending)
    /\ LET bad == WasapiWriteOverruns(audio_buffer_, buffer_pos_, Len(pending))
       IN  /\ w_overrun' = (w_overrun \/ bad)
           /\ IF bad THEN crashed' \in BOOLEAN ELSE crashed' = crashed
    /\ pc_capture' = "index"
    /\ UNCHANGED <<len_ms_, wasapi_handle_, running_, buffer_pos_, buffer_len_,
                   pushed, oversize>>
    /\ UNCHANGED <<step_ms, length_ms, keep_ms, pending, pc_main, after_clear,
                   pcmf32_new, pcmf32_old, pcmf32, n_iter, completed, get_mark,
                   dispatched>>
    /\ UNCHANGED ctxVars
    /\ UNCHANGED ringOnly
    /\ UNCHANGED <<streamOnly, vadOnly, dspOnly, apiOnly>>

\* audio_callback_wrapper: the indices are updated and the lock released.
CbIndexUnlock ==
    /\ ~crashed
    /\ pc_capture = "index"
    /\ LET size == Size(audio_buffer_)
           frames == Len(pending)
       IN  /\ buffer_pos_' = WasapiNextPos(buffer_pos_, frames, size)
           /\ buffer_len_' = WasapiNextLen(buffer_pos_, buffer_len_, frames, size)
    /\ mutex_' = "free"
    /\ completed' = completed + Len(pending)
    /\ pending' = << >>
    /\ pc_capture' = "wait"
    /\ UNCHANGED <<len_ms_, wasapi_handle_, running_, audio_buffer_, w_overrun,
                   crashed, pushed, oversize>>
    /\ UNCHANGED <<step_ms, length_ms, keep_ms, pc_main, after_clear,
                   pcmf32_new, pcmf32_old, pcmf32, n_iter, get_mark, dispatched>>
    /\ UNCHANGED ctxVars
    /\ UNCHANGED ringOnly
    /\ UNCHANGED <<streamOnly, vadOnly, dspOnly, apiOnly>>

\* while (is_running): should_continue() is true (ESC is up, or the key was
\* looked at less than 100 ms ago), fixed-step branch.
LoopTop ==
    /\ ~crashed
    /\ pc_main = "loop"
    /\ ~use_vad
    /\ pc_main' = "get"
    /\ UNCHANGED <<len_ms_, wasapi_handle_, running_, audio_buffer_,
                   buffer_pos_, buffer_len_, w_overrun, crashed, pushed,
                   oversize>>
    /\ UNCHANGED <<step_ms, length_ms, keep_ms, mutex_, pc_capture, pending,
                   after_clear, pcmf32_new, pcmf32_old, pcmf32, n_iter,
                   completed, get_mark, dispatched>>
    /\ UNCHANGED ctxVars
    /\ UNCHANGED ringOnly
    /\ UNCHANGED <<streamOnly, vadOnly, dspOnly, apiOnly>>

\* should_continue() is false (ESC): the loop is left for audio.pause().
EscPressed ==
    /\ ~crashed
    /\ pc_main = "loop"
    /\ stop_requested
    /\ pc_main' = "pause"
    /\ UNCHANGED <<len_ms_, wasapi_handle_, running_, audio_buffer_,
                   buffer_pos_, buffer_len_, w_overrun, crashed, pushed,
                   oversize>>
    /\ UNCHANGED <<step_ms, length_ms, keep_ms, mutex_, pc_capture, pending,
                   after_clear, pcmf32_new, pcmf32_old, pcmf32, n_iter,
                   completed, get_mark, dispatched>>
    /\ UNCHANGED ctxVars
    /\ UNCHANGED ringOnly
    /\ UNCHANGED <<streamOnly, vadOnly, dspOnly, apiOnly>>

\* audio.pause(), or audio's destructor after return 7: wasapi_capture_stop
\* returns once the capture thread has finished its current packet.
CaptureStopped ==
    /\ ~crashed
    /\ pc_main \in {"pause", "failed"}
    /\ wasapi_handle_ /\ running_
    /\ pc_capture = "wait"
    /\ pc_capture' = "exited"
    /\ running_' = FALSE
    /\ pc_main' = IF pc_main = "pause" THEN "done" ELSE "exit7"
    /\ UNCHANGED <<len_ms_, wasapi_handle_, audio_buffer_, buffer_pos_,
                   buffer_len_, w_overrun, crashed, pushed, oversize>>
    /\ UNCHANGED <<step_ms, length_ms, keep_ms, mutex_, pending, after_clear,
                   pcmf32_new, pcmf32_old, pcmf32, n_iter, completed, get_mark,
                   dispatched>>
    /\ UNCHANGED ctxVars
    /\ UNCHANGED ringOnly
    /\ UNCHANGED <<streamOnly, vadOnly, dspOnly, apiOnly>>

\* audio.pause() on a capture that is not running returns false.
PauseNotRunning ==
    /\ ~crashed
    /\ pc_main = "pause"
    /\ ~running_
    /\ pc_main' = "done"
    /\ UNCHANGED <<len_ms_, wasapi_handle_, running_, audio_buffer_,
                   buffer_pos_, buffer_len_, w_overrun, crashed, pushed,
                   oversize>>
    /\ UNCHANGED <<step_ms, length_ms, keep_ms, mutex_, pc_capture, pending,
                   after_clear, pcmf32_new, pcmf32_old, pcmf32, n_iter,
                   completed, get_mark, dispatched>>
    /\ UNCHANGED ctxVars
    /\ UNCHANGED ringOnly
    /\ UNCHANGED <<streamOnly, vadOnly, dspOnly, apiOnly>>

\* audio.get(params.step_ms, pcmf32_new) on a capture that is not running:
\* result.clear(), return false; the vector is too short, the loop sleeps.
GetNotRunning ==
    /\ ~crashed
    /\ pc_main = "get"
    /\ ~wasapi_handle_ \/ ~running_
    /\ pcmf32_new' = << >>
    /\ pc_main' = "sleep"
    /\ UNCHANGED <<len_ms_, wasapi_handle_, running_, audio_buffer_,
                   buffer_pos_, buffer_len_, w_overrun, crashed, pushed,
                   oversize>>
    /\ UNCHANGED <<step_ms, length_ms, keep_ms, mutex_, pc_capture, pending,
                   after_clear, pcmf32_old, pcmf32, n_iter, completed,
                   get_mark, dispatched>>
    /\ UNCHANGED ctxVars
    /\ UNCHANGED ringOnly
    /\ UNCHANGED <<streamOnly, vadOnly, dspOnly, apiOnly>>

\* std::this_thread::sleep_for(1 ms), then audio.get again.
Sleep ==
    /\ ~crashed
    /\ pc_main = "sleep"
    /\ pc_main' = "get"
    /\ UNCHANGED <<len_ms_, wasapi_handle_, running_, audio_buffer_,
                   buffer_pos_, buffer_len_, w_overrun, crashed, pushed,
                   oversize>>
    /\ UNCHANGED <<step_ms, length_ms, keep_ms, mutex_, pc_capture, pending,
                   after_clear, pcmf32_new, pcmf32_old, pcmf32, n_iter,
                   completed, get_mark, dispatched>>
    /\ UNCHANGED ctxVars
    /\ UNCHANGED ringOnly
    /\ UNCHANGED <<streamOnly, vadOnly, dspOnly, apiOnly>>

\* audio.get(params.step_ms, pcmf32_new): result.clear(), the capture is
\* running, the lock is taken.
GetLock ==
    /\ ~crashed
    /\ pc_main = "get"
    /\ wasapi_handle_ /\ running_
    /\ CanLock(mutex_)
    /\ mutex_' = "main"
    /\ pcmf32_new' = << >>
    /\ get_mark' = completed
    /\ pc_main' = "get_cs"
    /\ UNCHANGED <<len_ms_, wasapi_handle_, running_, audio_buffer_,
                   buffer_pos_, buffer_len_, w_overrun, crashed, pushed,
                   oversize>>
    /\ UNCHANGED <<step_ms, length_ms, keep_ms, pc_capture, pending,
                   after_clear, pcmf32_old, pcmf32, n_iter, completed,
                   dispatched>>
    /\ UNCHANGED ctxVars
    /\ UNCHANGED ringOnly
    /\ UNCHANGED <<streamOnly, vadOnly, dspOnly, apiOnly>>

\* audio.get: the copy out of the ring, the lock released; then the two
\* tests on pcmf32_new.size(), which send the loop to audio.clear() and on
\* (continue, or break to the composition) or to the sleep before the next get.
GetCopyUnlock ==
    /\ ~crashed
    /\ pc_main = "get_cs"
    /\ pcmf32_new' = WasapiGet(audio_buffer_, buffer_pos_, buffer_len_,
                               step_ms, len_ms_)
    /\ mutex_' = "free"
    /\ LET size == Len(pcmf32_new')
       IN  IF TooMuchNew(size, n_samples_step)
           THEN pc_main' = "clear" /\ after_clear' = "get"
           ELSE IF EnoughNew(size, n_samples_step)
                THEN pc_main' = "clear" /\ after_clear' = "compose"
                ELSE pc_main' = "sleep" /\ after_clear' = after_clear
    /\ UNCHANGED <<len_ms_, wasapi_handle_, running_, audio_buffer_,
                   buffer_pos_, buffer_len_, w_overrun, crashed, pushed,
                   oversize>>
    /\ UNCHANGED <<step_ms, length_ms, keep_ms, pc_capture, pending,
                   pcmf32_old, pcmf32, n_iter, completed, get_mark, dispatched>>
    /\ UNCHANGED ctxVars
    /\ UNCHANGED ringOnly
    /\ UNCHANGED <<streamOnly, vadOnly, dspOnly, apiOnly>>

\* audio.clear(): the capture is running, the lock is taken.
ClearLock ==
    /\ ~crashed
    /\ pc_main = "clear"
    /\ CanLock(mutex_)
    /\ mutex_' = "main"
    /\ pc_main' = "clear_cs"
    /\ UNCHANGED <<len_ms_, wasapi_handle_, running_, audio_buffer_,
                   buffer_pos_, buffer_len_, w_overrun, crashed, pushed,
                   oversize>>
    /\ UNCHANGED <<step_ms, length_ms, keep_ms, pc_capture, pending,
                   after_clear, pcmf32_new, pcmf32_old, pcmf32, n_iter,
                   completed, get_mark, dispatched>>
    /\ UNCHANGED ctxVars
    /\ UNCHANGED ringOnly
    /\ UNCHANGED <<streamOnly, vadOnly, dspOnly, apiOnly>>

\* audio.clear(): the indices reset, the lock released.
ClearUnlock ==
    /\ ~crashed
    /\ pc_main = "clear_cs"
    /\ LET w == WasapiClear(wasapi_handle_, running_, buffer_pos_, buffer_len_)
       IN  buffer_pos_' = w.pos /\ buffer_len_' = w.len
    /\ mutex_' = "free"
    /\ pc_main' = after_clear
    /\ UNCHANGED <<len_ms_, wasapi_handle_, running_, audio_buffer_, w_overrun,
                   crashed, pushed, oversize>>
    /\ UNCHANGED <<step_ms, length_ms, keep_ms, pc_capture, pending,
                   after_clear, pcmf32_new, pcmf32_old, pcmf32, n_iter,
                   completed, get_mark, dispatched>>
    /\ UNCHANGED ctxVars
    /\ UNCHANGED ringOnly
    /\ UNCHANGED <<streamOnly, vadOnly, dspOnly, apiOnly>>

\* wparams.prompt_tokens, wparams.prompt_n_tokens
PromptFor(no_ctx, tokens) == IF no_ctx THEN << >> ELSE tokens

\* The window is composed: the tail of pcmf32_old, then pcmf32_new;
\* pcmf32_old = pcmf32; wparams is filled in and whisper_full is called.
Compose ==
    /\ ~crashed
    /\ pc_main = "compose"
    /\ pcmf32' = Window(pcmf32_old, pcmf32_new)
    /\ pcmf32_old' = pcmf32'
    /\ dispatched' = dispatched \o pcmf32_new
    /\ handed' = Append(handed, PromptFor(no_context, prompt_tokens))
    /\ pc_main' = "infer"
    /\ UNCHANGED <<len_ms_, wasapi_handle_, running_, audio_buffer_,
                   buffer_pos_, buffer_len_, w_overrun, crashed, pushed,
                   oversize>>
    /\ UNCHANGED <<step_ms, length_ms, keep_ms, mutex_, pc_capture, pending,
                   after_clear, pcmf32_new, n_iter, completed, get_mark>>
    /\ UNCHANGED <<no_context, prompt_tokens, stop_requested, resume_failed,
                   boundaries>>
    /\ UNCHANGED ringOnly
    /\ UNCHANGED <<streamOnly, vadOnly, dspOnly, apiOnly>>

\* !use_vad && (n_iter % n_new_line) == 0
AtBoundary(iter) == ~use_vad /\ iter % n_new_line = 0

\* A boundary that leaves pcmf32_old as it is.
OldAfterNoReset(iter, win, old) == old

\* pcmf32_old after ++n_iter: at a boundary the last n_samples_keep samples
\* of pcmf32.
OldAfter(iter, win, old) ==
    IF AtBoundary(iter) THEN Tail_n(win, n_samples_keep) ELSE old

\* prompt_tokens after ++n_iter: at a boundary, with context kept, the tokens
\* of the result just obtained.  The tokens whisper returns for its iter-th
\* result are written <<iter>>.
PromptAfter(iter, no_ctx, tokens) ==
    IF AtBoundary(iter) /\ ~no_ctx THEN <<iter>> ELSE tokens

\* whisper_full returns 0; ++n_iter; at a multiple of n_new_line pcmf32_old
\* becomes the last n_samples_keep samples of pcmf32 and, with context kept,
\* prompt_tokens the tokens of the result.
InferOk ==
    /\ ~crashed
    /\ pc_main = "infer"
    /\ n_iter' = n_iter + 1
    /\ pcmf32_old' = OldAfter(n_iter', pcmf32, pcmf32_old)
    /\ prompt_tokens' = PromptAfter(n_iter', no_context, prompt_tokens)
    /\ boundaries' = IF AtBoundary(n_iter') THEN Append(boundaries, n_iter')
                                            ELSE boundaries
    /\ pc_main' = "loop"
    /\ UNCHANGED <<len_ms_, wasapi_handle_, running_, audio_buffer_,
                   buffer_pos_, buffer_len_, w_overrun, crashed, pushed,
                   oversize>>
    /\ UNCHANGED <<step_ms, length_ms, keep_ms, mutex_, pc_capture, pending,
                   after_clear, pcmf32_new, pcmf32, completed, get_mark,
                   dispatched>>
    /\ UNCHANGED <<no_context, stop_requested, resume_failed, handed>>
    /\ UNCHANGED ringOnly
    /\ UNCHANGED <<streamOnly, vadOnly, dspOnly, apiOnly>>

\* whisper_full returns non-zero: main returns 7.
InferFail ==
    /\ ~crashed
    /\ pc_main = "infer"
    /\ pc_main' = "failed"
    /\ UNCHANGED <<len_ms_, wasapi_handle_, running_, audio_buffer_,
                   buffer_pos_, buffer_len_, w_overrun, crashed, pushed,
                   oversize>>
    /\ UNCHANGED <<step_ms, length_ms, keep_ms, mutex_, pc_capture, pending,
                   after_clear, pcmf32_new, pcmf32_old, pcmf32, n_iter,
                   completed, get_mark, dispatched>>
    /\ UNCHANGED ctxVars
    /\ UNCHANGED ringOnly
    /\ UNCHANGED <<streamOnly, vadOnly, dspOnly, apiOnly>>

SchedNext ==
    \/ AudioInitOk
    \/ AudioInitFail
    \/ ResumeOk
    \/ ResumeFail
    \/ PressEsc
    \/ PauseNotRunning
    \/ GetNotRunning
    \/ Sleep
    \/ \E frames \in 0..MaxPacket : Packet(frames)
    \/ CbLockWrite
    \/ CbIndexUnlock
    \/ LoopTop
    \/ EscPressed
    \/ CaptureStopped
    \/ GetLock
    \/ GetCopyUnlock
    \/ ClearLock
    \/ ClearUnlock
    \/ Compose
    \/ InferOk
    \/ InferFail

SpecSched == SchedInit /\ [][SchedNext]_vars

\* The steps of the main thread, and the steps of the capture thread inside
\* audio_callback_wrapper.  The operating system schedules both threads; a
\* thread that asks for the mutex again and again gets it; a key held down
\* is seen by should_continue() once 100 ms have passed; the capture thread
\* sees stop_capture_ at the top of its loop.  No packet has to arrive.
MainStep ==
    \/ AudioInitOk \/ AudioInitFail \/ ResumeOk \/ ResumeFail
    \/ LoopTop \/ EscPressed \/ CaptureStopped \/ PauseNotRunning
    \/ GetNotRunning \/ Sleep \/ GetLock \/ GetCopyUnlock
    \/ ClearLock \/ ClearUnlock \/ Compose \/ InferOk \/ InferFail

CallbackStep == CbLockWrite \/ CbIndexUnlock

SpecSchedFair ==
    /\ SchedInit /\ [][SchedNext]_vars
    /\ WF_vars(MainStep)
    /\ WF_vars(CallbackStep)
    /\ SF_vars(GetLock) /\ SF_vars(ClearLock) /\ SF_vars(CbLockWrite)
    /\ SF_vars(EscPressed) /\ SF_vars(CaptureStopped)

\* ------------------------------------------------- stream_app/main.cpp:
\* the VAD mode (step_ms = 0) of the main loop
\* In this mode a sample is its amplitude, 0 .. MaxAmplitude.  vad_thold is
\* the fraction num/den with den > 0; the values modelled are 0, -1 and
\* powers of two, for which the float comparison of vad_simple agrees with
\* the comparison of the exact quotients.
Tholds == {[num |-> 0, den |-> 1], [num |-> 1, den |-> 2],
           [num |-> 1, den |-> 1], [num |-> 2, den |-> 1],
           [num |-> 0 - 1, den |-> 1]}

Abs(x) == IF x < 0 THEN 0 - x ELSE x

RECURSIVE SumAbs(_, _, _)
\* fabsf(pcmf32[lo]) + ... + fabsf(pcmf32[hi]), indices from 1.
SumAbs(pcm, lo, hi) ==
    IF lo > hi THEN 0 ELSE Abs(pcm[lo]) + SumAbs(pcm, lo + 1, hi)

\* A gate that goes on to the energies when n_samples_last = n_samples.
vad_simple_strict(pcm, sample_rate, last_ms, thold) ==
    LET n_samples == Len(pcm)
        n_samples_last == (sample_rate * last_ms) \div 1000
    IN  IF n_samples_last > n_samples
        THEN FALSE
        ELSE SumAbs(pcm, 1, n_samples) * thold.den
                 <= thold.num * SumAbs(pcm, 1, n_samples)

\* vad_simple: energy_last > vad_thold*energy_all, that is
\* sum_last / n_samples_last > (num/den) * sum_all / n_samples, answers false.
vad_simple(pcm, sample_rate, last_ms, thold) ==
    LET n_samples == Len(pcm)
        n_samples_last == (sample_rate * last_ms) \div 1000
    IN  IF n_samples_last >= n_samples
        THEN FALSE
        ELSE LET sum_all == SumAbs(pcm, 1, n_samples)
                 sum_last == SumAbs(pcm, n_samples - n_samples_last + 1,
                                    n_samples)
             IN  IF sum_last * n_samples * thold.den
                      > thold.num * sum_all * n_samples_last
                 THEN FALSE
                 ELSE TRUE

\* The packets the capture thread may deliver.
VadPackets == UNION {[1..n -> 0..MaxAmplitude] : n \in 1..MaxVadPush}

\* stream_app was started with --step 0; audio.init and audio.resume have
\* succeeded and the main thread is about to enter the audio loop.
VadInit ==
    /\ step_ms = 0 /\ keep_ms = 0
    /\ length_ms \in 1..MaxVadLengthMs
    /\ vad_thold \in Tholds
    /\ vad_answer = "none"
    /\ clock = 0 /\ t_now = 0 /\ t_last = 0 /\ t_gate = 0 - 1
    /\ no_context = TRUE
    /\ prompt_tokens = << >>
    /\ stop_requested = FALSE /\ resume_failed = FALSE
    /\ handed = << >> /\ boundaries = << >>
    /\ len_ms_ = length_ms
    /\ wasapi_handle_ = TRUE
    /\ running_ = TRUE
    /\ audio_buffer_ = NewStorage(len_ms_)
    /\ buffer_pos_ = 0
    /\ buffer_len_ = 0
    /\ w_overrun = FALSE
    /\ crashed = FALSE
    /\ pushed = 0
    /\ oversize = FALSE
    /\ mutex_ = "free"
    /\ pc_capture = "wait"
    /\ pending = << >>
    /\ pc_main = "loop"
    /\ after_clear = "none"
    /\ pcmf32_new = << >> /\ pcmf32_old = << >> /\ pcmf32 = << >>
    /\ n_iter = 0
    /\ completed = 0 /\ get_mark = 0 /\ dispatched = << >>
    /\ w_result = << >> /\ s_result = << >>
    /\ m_audio = NewStorage(len_ms_) /\ m_audio_pos = 0 /\ m_audio_len = 0
    /\ s_overrun = FALSE /\ since = 0 /\ op = NoOp
    /\ StreamIdle
    /\ DspIdle
    /\ ApiIdle

\* The capture thread delivers the packet s: audio_callback_wrapper, the
\* whole call under the mutex.
VadCallback(s) ==
    /\ ~crashed
    /\ pc_capture = "wait"
    /\ running_
    /\ pushed + Len(s) <= MaxVadTotal
    /\ LET frames == Len(s)
           size == Size(audio_buffer_)
           bad == WasapiWriteOverruns(audio_buffer_, buffer_pos_, frames)
       IN  /\ audio_buffer_' = WasapiWrite(audio_buffer_, buffer_pos_, s)
           /\ buffer_pos_' = WasapiNextPos(buffer_pos_, frames, size)
           /\ buffer_len_' = WasapiNextLen(buffer_pos_, buffer_len_, frames, size)
           /\ w_overrun' = (w_overrun \/ bad)
           /\ IF bad THEN crashed' \in BOOLEAN ELSE crashed' = crashed
           /\ oversize' = (oversize \/ frames > size)
    /\ pushed' = pushed + Len(s)
    /\ UNCHANGED <<len_ms_, wasapi_handle_, running_>>
    /\ UNCHANGED schedOnly
    /\ UNCHANGED ringOnly
    /\ UNCHANGED <<streamOnly, vadOnly, dspOnly, apiOnly>>

\* Wall time passes.
Tick ==
    /\ ~crashed
    /\ clock < MaxClock
    /\ clock' = clock + 1
    /\ UNCHANGED <<vad_thold, vad_answer, t_now, t_last, t_gate>>
    /\ UNCHANGED <<ringVars, schedOnly, streamOnly, dspOnly, apiOnly>>

\* The VAD branch with t_diff < 2000: sleep_for(100 ms) and continue.
VadWait ==
    /\ ~crashed
    /\ pc_main = "loop"
    /\ use_vad
    /\ clock - t_last < VadWindowMs
    /\ clock + VadSleepMs <= MaxClock
    /\ t_now' = clock
    /\ clock' = clock + VadSleepMs
    /\ UNCHANGED <<vad_thold, vad_answer, t_last, t_gate>>
    /\ UNCHANGED <<ringVars, schedOnly, streamOnly, dspOnly, apiOnly>>

\* The VAD branch with t_diff >= 2000: audio.get(2000, pcmf32_new), the
\* whole call under the mutex.
VadGet ==
    /\ ~crashed
    /\ pc_main = "loop"
    /\ use_vad
    /\ clock - t_last >= VadWindowMs
    /\ t_now' = clock
    /\ pcmf32_new' = WasapiGet(audio_buffer_, buffer_pos_, buffer_len_,
                               VadWindowMs, len_ms_)
    /\ vad_answer' = "none"
    /\ pc_main' = "vad_gate"
    /\ UNCHANGED <<len_ms_, wasapi_handle_, running_, audio_buffer_,
                   buffer_pos_, buffer_len_, w_overrun, crashed, pushed,
                   oversize>>
    /\ UNCHANGED <<step_ms, length_ms, keep_ms, mutex_, pc_capture, pending,
                   after_clear, pcmf32_old, pcmf32, n_iter, completed,
                   get_mark, dispatched>>
    /\ UNCHANGED ctxVars
    /\ UNCHANGED ringOnly
    /\ UNCHANGED <<streamOnly, dspOnly, apiOnly>>
    /\ UNCHANGED <<vad_thold, clock, t_last, t_gate>>

\* vad_simple(pcmf32_new, WHISPER_SAMPLE_RATE, 1000, vad_thold, ...): true
\* sends the loop on to audio.get(params.length_ms, pcmf32), false to
\* sleep_for(100 ms) and continue.
VadGate ==
    /\ ~crashed
    /\ pc_main = "vad_gate"
    /\ clock + VadSleepMs <= MaxClock
    /\ t_gate' = clock
    /\ LET answer == vad_simple(pcmf32_new, WHISPER_SAMPLE_RATE, VadLastMs,
                                vad_thold)
       IN  /\ vad_answer' = IF answer THEN "true" ELSE "false"
           /\ pc_main' = IF answer THEN "vad_fetch" ELSE "loop"
           /\ clock' = IF answer THEN clock ELSE clock + VadSleepMs
    /\ UNCHANGED <<len_ms_, wasapi_handle_, running_, audio_buffer_,
                   buffer_pos_, buffer_len_, w_overrun, crashed, pushed,
                   oversize>>
    /\ UNCHANGED <<step_ms, length_ms, keep_ms, mutex_, pc_capture, pending,
                   after_clear, pcmf32_new, pcmf32_old, pcmf32, n_iter,
                   completed, get_mark, dispatched>>
    /\ UNCHANGED ctxVars
    /\ UNCHANGED ringOnly
    /\ UNCHANGED <<streamOnly, dspOnly, apiOnly>>
    /\ UNCHANGED <<vad_thold, t_now, t_last>>

\* audio.get(params.length_ms, pcmf32), the whole call under the mutex;
\* t_last = t_now; wparams is filled in and whisper_full is called.
VadFetch ==
    /\ ~crashed
    /\ pc_main = "vad_fetch"
    /\ n_iter < MaxVadIter
    /\ pcmf32' = WasapiGet(audio_buffer_, buffer_pos_, buffer_len_,
                           length_ms, len_ms_)
    /\ handed' = Append(handed, PromptFor(no_context, prompt_tokens))
    /\ t_last' = t_now
    /\ pc_main' = "infer"
    /\ UNCHANGED <<len_ms_, wasapi_handle_, running_, audio_buffer_,
                   buffer_pos_, buffer_len_, w_overrun, crashed, pushed,
                   oversize>>
    /\ UNCHANGED <<step_ms, length_ms, keep_ms, mutex_, pc_capture, pending,
                   after_clear, pcmf32_new, pcmf32_old, n_iter, completed,
                   get_mark, dispatched>>
    /\ UNCHANGED <<no_context, prompt_tokens, stop_requested, resume_failed,
                   boundaries>>
    /\ UNCHANGED ringOnly
    /\ UNCHANGED <<streamOnly, dspOnly, apiOnly>>
    /\ UNCHANGED <<vad_thold, vad_answer, clock, t_now,
                   t_gate>>

VadNext ==
    \/ \E s \in VadPackets : VadCallback(s)
    \/ Tick
    \/ VadWait
    \/ VadGet
    \/ VadGate
    \/ VadFetch
    \/ InferOk
    \/ InferFail
    \/ PressEsc
    \/ EscPressed
    \/ CaptureStopped

SpecVad == VadInit /\ [][VadNext]_vars

\* ------------------------------------------------- stream/main.cpp: the
\* queue-based pipeline (main thread, whisper thread, capture thread)
\* The k-th sample delivered carries k when it is louder than 0.01 and -k
\* when it is not.
notStream == <<ringVars, schedOnly, vadOnly, dspOnly, apiOnly>>

\* g_audio_buffer.sample_rate, from wasapi_capture_get_format.
g_sample_rate == ModelSampleRate

\* n_samples_step, n_samples_len and n_samples_keep of
\* whisper_processing_thread.
q_n_samples_step == (g_sample_rate * step_ms) \div 1000
q_n_samples_len == (g_sample_rate * length_ms) \div 1000
q_n_samples_keep == q_n_samples_len - q_n_samples_step

RECURSIVE Flatten(_)
\* The chunks of a queue, front first, one after the other.
Flatten(q) == IF q = << >> THEN << >> ELSE Head(q) \o Flatten(Tail(q))

\* max_abs > 0.01f for some sample.
is_valid(a) == \E i \in 1..Len(a) : a[i] > 0

\* A queue that takes every chunk.
QueuePushAlways(q, chunk) == Append(q, chunk)

\* audio_data_callback under the lock: the chunk is queued unless the queue
\* is full.
QueuePush(q, chunk) == IF Len(q) < MAX_SIZE THEN Append(q, chunk) ELSE q

\* audio_data after a window was processed.
KeepTail(a) ==
    IF q_n_samples_keep > 0 /\ Len(a) > q_n_samples_keep
    THEN Tail_n(a, q_n_samples_keep)
    ELSE << >>

\* A wait on the thread handle that returns while the thread still runs.
ThreadJoinedNoWait(pc) == TRUE

\* WaitForSingleObject(capture_thread_, INFINITE), whisper_thread.join():
\* the wait ends when the thread has returned.
ThreadJoined(pc) == pc = "exited"

\* main of stream/main.cpp has parsed its arguments; the capture object is
\* created (its constructor leaves capture_thread_ and stop_capture_
\* unset) and main is about to call wasapi_capture_initialize.
StreamInit ==
    /\ \E s \in 1..MaxQStepMs, l \in 1..MaxQLengthMs :
          step_ms = s /\ length_ms = l
    /\ keep_ms = 0
    /\ g_is_running = TRUE /\ queue = << >> /\ audio_data = << >>
    /\ pc_smain = "initialize" /\ pc_whisper = "none" /\ pc_cap = "none"
    /\ q_pushed = 0 /\ accepted = << >>
    /\ stop_capture_ \in BOOLEAN
    /\ capture_thread_ = "indeterminate"
    /\ capture_alive = TRUE
    \* the other programs do not run
    /\ len_ms_ = 1 /\ wasapi_handle_ = FALSE /\ running_ = FALSE
    /\ audio_buffer_ = NewStorage(len_ms_) /\ buffer_pos_ = 0 /\ buffer_len_ = 0
    /\ w_result = << >> /\ m_audio = NewStorage(len_ms_) /\ m_audio_pos = 0
    /\ m_audio_len = 0 /\ s_result = << >> /\ w_overrun = FALSE
    /\ s_overrun = FALSE /\ crashed = FALSE /\ pushed = 0 /\ since = 0
    /\ oversize = FALSE /\ op = NoOp
    /\ mutex_ = "free" /\ pc_capture = "none" /\ pending = << >>
    /\ pc_main = "none" /\ after_clear = "none"
    /\ pcmf32_new = << >> /\ pcmf32_old = << >> /\ pcmf32 = << >>
    /\ n_iter = 0 /\ completed = 0 /\ get_mark = 0 /\ dispatched = << >>
    /\ no_context = TRUE /\ prompt_tokens = << >>
    /\ stop_requested = FALSE /\ resume_failed = FALSE
    /\ handed = << >> /\ boundaries = << >>
    /\ VadIdle
    /\ DspIdle
    /\ ApiIdle

\* wasapi_capture_initialize succeeds; whisper is initialised, the callback
\* set, the whisper thread created.
InitializeOk ==
    /\ pc_smain = "initialize"
    /\ pc_whisper' = "loop"
    /\ pc_smain' = "start"
    /\ UNCHANGED <<g_is_running, queue, audio_data, pc_cap, q_pushed,
                   stop_capture_, capture_thread_, capture_alive>>
    /\ UNCHANGED accepted
    /\ UNCHANGED notStream

\* wasapi_capture_initialize fails: wasapi_capture_destroy, return 1.
InitializeFail ==
    /\ pc_smain = "initialize"
    /\ pc_smain' = "destroy"
    /\ UNCHANGED <<g_is_running, queue, audio_data, pc_whisper, pc_cap,
                   q_pushed, stop_capture_, capture_thread_, capture_alive>>
    /\ UNCHANGED accepted
    /\ UNCHANGED notStream

\* wasapi_capture_start succeeds: the capture thread is created.
StartOk ==
    /\ pc_smain = "start"
    /\ capture_thread_' = "thread"
    /\ pc_cap' = "entry"
    /\ pc_smain' = "getchar"
    /\ UNCHANGED <<g_is_running, queue, audio_data, pc_whisper, q_pushed,
                   stop_capture_, capture_alive>>
    /\ UNCHANGED accepted
    /\ UNCHANGED notStream

\* wasapi_capture_start fails: audio_client_->Start() failed (capture_thread_
\* as it was) or CreateThread returned null; g_is_running = false.
StartFail ==
    /\ pc_smain = "start"
    /\ capture_thread_' \in {capture_thread_, "null"}
    /\ g_is_running' = FALSE
    /\ pc_smain' = "join"
    /\ UNCHANGED <<queue, audio_data, pc_whisper, pc_cap, q_pushed,
                   stop_capture_, capture_alive>>
    /\ UNCHANGED accepted
    /\ UNCHANGED notStream

\* getchar() returns; g_is_running = false.
EnterPressed ==
    /\ pc_smain = "getchar"
    /\ g_is_running' = FALSE
    /\ pc_smain' = "join"
    /\ UNCHANGED <<queue, audio_data, pc_whisper, pc_cap, q_pushed,
                   stop_capture_, capture_thread_, capture_alive>>
    /\ UNCHANGED accepted
    /\ UNCHANGED notStream

\* whisper_thread.join() returns; next wasapi_capture_stop where the capture
\* was started, wasapi_capture_destroy where it was not.
Join ==
    /\ pc_smain = "join"
    /\ ThreadJoined(pc_whisper)
    /\ pc_smain' = IF capture_thread_ = "thread" THEN "stop" ELSE "destroy"
    /\ UNCHANGED <<g_is_running, queue, audio_data, pc_whisper, pc_cap,
                   q_pushed, stop_capture_, capture_thread_, capture_alive>>
    /\ UNCHANGED accepted
    /\ UNCHANGED notStream

\* WasapiCapture::stop: stop_capture_ = true.
StopSignal ==
    /\ pc_smain = "stop"
    /\ capture_thread_ = "thread"
    /\ stop_capture_' = TRUE
    /\ pc_smain' = "stop_wait"
    /\ UNCHANGED <<g_is_running, queue, audio_data, pc_whisper, pc_cap,
                   q_pushed, capture_thread_, capture_alive>>
    /\ UNCHANGED accepted
    /\ UNCHANGED notStream

\* WasapiCapture::stop: the wait on the thread handle returns, the handle is
\* closed, capture_thread_ = nullptr.
StopWait ==
    /\ pc_smain = "stop_wait"
    /\ ThreadJoined(pc_cap)
    /\ capture_thread_' = "null"
    /\ pc_smain' = "destroy"
    /\ UNCHANGED <<g_is_running, queue, audio_data, pc_whisper, pc_cap,
                   q_pushed, stop_capture_, capture_alive>>
    /\ UNCHANGED accepted
    /\ UNCHANGED notStream

\* wasapi_capture_destroy: ~WasapiCapture calls cleanup, which calls stop
\* and releases the device; then main returns.  With capture_thread_ never
\* set, stop reads an indeterminate handle: it may be null, or the wait on
\* it may fail at once.
Destroy ==
    /\ pc_smain = "destroy"
    /\ capture_thread_ \in {"null", "indeterminate"}
    /\ stop_capture_' \in IF capture_thread_ = "indeterminate"
                          THEN {stop_capture_, TRUE}
                          ELSE {stop_capture_}
    /\ capture_thread_' = "null"
    /\ capture_alive' = FALSE
    /\ pc_smain' = "returned"
    /\ UNCHANGED <<g_is_running, queue, audio_data, pc_whisper, pc_cap,
                   q_pushed>>
    /\ UNCHANGED accepted
    /\ UNCHANGED notStream

\* wasapi_capture_destroy with capture_thread_ never set: the indeterminate
\* handle may name an object that is never signalled, and the wait in stop
\* does not return.
DestroyHangs ==
    /\ pc_smain = "destroy"
    /\ capture_thread_ = "indeterminate"
    /\ stop_capture_' = TRUE
    /\ pc_smain' = "hung"
    /\ UNCHANGED <<g_is_running, queue, audio_data, pc_whisper, pc_cap,
                   q_pushed, capture_thread_, capture_alive>>
    /\ UNCHANGED accepted
    /\ UNCHANGED notStream

\* capture_proc: stop_capture_ = false on entry.
CapEntry ==
    /\ pc_cap = "entry"
    /\ stop_capture_' = FALSE
    /\ pc_cap' = "loop"
    /\ UNCHANGED <<g_is_running, queue, audio_data, pc_smain, pc_whisper,
                   q_pushed, capture_thread_, capture_alive>>
    /\ UNCHANGED accepted
    /\ UNCHANGED notStream

\* capture_proc: while (!stop_capture_) ends the loop, the thread returns.
CapExit ==
    /\ pc_cap = "loop"
    /\ stop_capture_
    /\ pc_cap' = "exited"
    /\ UNCHANGED <<g_is_running, queue, audio_data, pc_smain, pc_whisper,
                   q_pushed, stop_capture_, capture_thread_, capture_alive>>
    /\ UNCHANGED accepted
    /\ UNCHANGED notStream

\* capture_proc: a call of the capture client fails, break, the thread
\* returns.
CapDeviceError ==
    /\ pc_cap = "loop"
    /\ ~stop_capture_
    /\ pc_cap' = "exited"
    /\ UNCHANGED <<g_is_running, queue, audio_data, pc_smain, pc_whisper,
                   q_pushed, stop_capture_, capture_thread_, capture_alive>>
    /\ UNCHANGED accepted
    /\ UNCHANGED notStream

\* capture_proc: GetNextPacketSize gives 0, Sleep(1).
CapIdle ==
    /\ pc_cap = "loop"
    /\ ~stop_capture_
    /\ pc_cap' = "sleep"
    /\ UNCHANGED <<g_is_running, queue, audio_data, pc_smain, pc_whisper,
                   q_pushed, stop_capture_, capture_thread_, capture_alive>>
    /\ UNCHANGED accepted
    /\ UNCHANGED notStream

\* capture_proc: Sleep(1) returns, continue.
CapWake ==
    /\ pc_cap = "sleep"
    /\ pc_cap' = "loop"
    /\ UNCHANGED <<g_is_running, queue, audio_data, pc_smain, pc_whisper,
                   q_pushed, stop_capture_, capture_thread_, capture_alive>>
    /\ UNCHANGED accepted
    /\ UNCHANGED notStream

\* capture_proc: a packet of `frames` samples, loud or not, is handed to
\* audio_data_callback.
CapCallback(frames, loud) ==
    /\ pc_cap = "loop"
    /\ ~stop_capture_
    /\ q_pushed + frames <= MaxQTotal
    /\ LET chunk == [i \in 1..frames |->
                       IF loud THEN q_pushed + i ELSE 0 - (q_pushed + i)]
       IN  /\ queue' = QueuePush(queue, chunk)
           /\ accepted' = IF queue' = queue THEN accepted
                                            ELSE accepted \o chunk
    /\ q_pushed' = q_pushed + frames
    /\ UNCHANGED <<g_is_running, audio_data, pc_smain, pc_whisper, pc_cap,
                   stop_capture_, capture_thread_, capture_alive>>
    /\ UNCHANGED notStream

\* whisper_processing_thread: while (g_is_running).
WhisperLoop ==
    /\ pc_whisper = "loop"
    /\ pc_whisper' = IF g_is_running THEN "drain" ELSE "exited"
    /\ UNCHANGED <<g_is_running, queue, audio_data, pc_smain, pc_cap,
                   q_pushed, stop_capture_, capture_thread_, capture_alive>>
    /\ UNCHANGED accepted
    /\ UNCHANGED notStream

\* Under the lock every queued chunk is appended to audio_data.
Drain ==
    /\ pc_whisper = "drain"
    /\ audio_data' = audio_data \o Flatten(queue)
    /\ queue' = << >>
    /\ pc_whisper' = "test"
    /\ UNCHANGED <<g_is_running, pc_smain, pc_cap, q_pushed, stop_capture_,
                   capture_thread_, capture_alive>>
    /\ UNCHANGED accepted
    /\ UNCHANGED notStream

\* Fewer than n_samples_len samples: sleep 10 ms.
NotEnough ==
    /\ pc_whisper = "test"
    /\ Len(audio_data) < q_n_samples_len
    /\ pc_whisper' = "loop"
    /\ UNCHANGED <<g_is_running, queue, audio_data, pc_smain, pc_cap,
                   q_pushed, stop_capture_, capture_thread_, capture_alive>>
    /\ UNCHANGED accepted
    /\ UNCHANGED notStream

\* Enough samples, none louder than 0.01: audio_data.clear(), continue.
SkipSilence ==
    /\ pc_whisper = "test"
    /\ Len(audio_data) >= q_n_samples_len
    /\ ~is_valid(audio_data)
    /\ audio_data' = << >>
    /\ pc_whisper' = "loop"
    /\ UNCHANGED <<g_is_running, queue, pc_smain, pc_cap, q_pushed,
                   stop_capture_, capture_thread_, capture_alive>>
    /\ UNCHANGED accepted
    /\ UNCHANGED notStream

\* Enough samples, one of them loud: resampled and handed to whisper_full.
Submit ==
    /\ pc_whisper = "test"
    /\ Len(audio_data) >= q_n_samples_len
    /\ is_valid(audio_data)
    /\ pc_whisper' = "infer"
    /\ UNCHANGED <<g_is_running, queue, audio_data, pc_smain, pc_cap,
                   q_pushed, stop_capture_, capture_thread_, capture_alive>>
    /\ UNCHANGED accepted
    /\ UNCHANGED notStream

\* whisper_full returns 0: the result is printed, the last n_samples_keep
\* samples are kept, sleep 10 ms.
WhisperOk ==
    /\ pc_whisper = "infer"
    /\ audio_data' = KeepTail(audio_data)
    /\ pc_whisper' = "loop"
    /\ UNCHANGED <<g_is_running, queue, pc_smain, pc_cap, q_pushed,
                   stop_capture_, capture_thread_, capture_alive>>
    /\ UNCHANGED accepted
    /\ UNCHANGED notStream

\* whisper_full returns non-zero: continue, audio_data as it is.
WhisperFail ==
    /\ pc_whisper = "infer"
    /\ pc_whisper' = "loop"
    /\ UNCHANGED <<g_is_running, queue, audio_data, pc_smain, pc_cap,
                   q_pushed, stop_capture_, capture_thread_, capture_alive>>
    /\ UNCHANGED accepted
    /\ UNCHANGED notStream

StreamNext ==
    \/ InitializeOk
    \/ InitializeFail
    \/ StartOk
    \/ StartFail
    \/ EnterPressed
    \/ Join
    \/ StopSignal
    \/ StopWait
    \/ Destroy
    \/ DestroyHangs
    \/ CapEntry
    \/ CapExit
    \/ CapDeviceError
    \/ CapIdle
    \/ CapWake
    \/ \E frames \in 1..MaxChunk, loud \in BOOLEAN : CapCallback(frames, loud)
    \/ WhisperLoop
    \/ Drain
    \/ NotEnough
    \/ SkipSilence
    \/ Submit
    \/ WhisperOk
    \/ WhisperFail

SpecStream == StreamInit /\ [][StreamNext]_vars

\* A step of the capture thread.
CapStep ==
    \/ CapEntry
    \/ CapExit
    \/ CapDeviceError
    \/ CapIdle
    \/ CapWake
    \/ \E frames \in 1..MaxChunk, loud \in BOOLEAN : CapCallback(frames, loud)

\* Every thread that can take a step of its own code eventually takes one;
\* the Enter key is not required to be pressed.
SpecStreamFair ==
    /\ StreamInit /\ [][StreamNext]_vars
    /\ WF_vars(Join) /\ WF_vars(StopSignal) /\ WF_vars(StopWait)
    /\ WF_vars(CapStep)
    /\ WF_vars(WhisperLoop)

\* ------------------------------------- WasapiCapture::capture_proc: one
\* packet from GetBuffer to the callback (downmix, gain, resampling)
\* A float sample is the fraction num/den in lowest terms, den > 0; the
\* arithmetic is exact.
RECURSIVE GCD(_, _)
GCD(a, b) == IF b = 0 THEN a ELSE GCD(b, a % b)

Frac(n, d) ==
    LET g == GCD(Abs(n), d)
    IN  [num |-> IF n < 0 THEN 0 - (Abs(n) \div g) ELSE n \div g,
         den |-> d \div g]

FZero == Frac(0, 1)
FOne == Frac(1, 1)
FAdd(a, b) == Frac(a.num * b.den + b.num * a.den, a.den * b.den)
FSub(a, b) == Frac(a.num * b.den - b.num * a.den, a.den * b.den)
FMul(a, b) == Frac(a.num * b.num, a.den * b.den)
\* a / b for b > 0
FDiv(a, b) == Frac(a.num * b.den, a.den * b.num)
FAbs(a) == [num |-> Abs(a.num), den |-> a.den]
FLess(a, b) == a.num * b.den < b.num * a.den
FMax(a, b) == IF FLess(a, b) THEN b ELSE a

\* The amplitude 0.1f below which a packet is amplified, and the amplitude
\* it is amplified to.
GainThreshold == Frac(1, 10)

\* The rate the samples are converted to (16000 in capture_proc, the rate
\* audio_async_wasapi is created with).
TargetRate == COMMON_SAMPLE_RATE

\* The values of mix_format_->nSamplesPerSec.
MixRates == {(k * TargetRate) \div 2 : k \in 0..MaxRateHalves}

\* The sample values a device delivers.
Levels == {Frac(k, SampleUnit) : k \in (0 - 1)..MaxLevel}

\* The buffers GetBuffer returns for a format of `channels` channels: frames
\* times channels interleaved samples.
Packets(channels, room) ==
    UNION {[1..(frames * channels) -> Levels] :
              frames \in 0..(room \div channels)}

RECURSIVE ChannelSum(_, _, _, _)
\* audio_data[i*channels + 0] + ... + audio_data[i*channels + ch - 1], i from 0.
ChannelSum(d, i, channels, ch) ==
    IF ch = 0 THEN FZero
    ELSE FAdd(ChannelSum(d, i, channels, ch - 1), d[i * channels + ch])

\* mono_data after the first loop: sum / channels for each frame.
Downmix(d, channels) ==
    [i \in 1..(Len(d) \div channels) |->
        FDiv(ChannelSum(d, i - 1, channels, channels), Frac(channels, 1))]

RECURSIVE MaxAmplitudeTo(_, _)
\* max_amplitude over the first n samples of mono.
MaxAmplitudeTo(mono, n) ==
    IF n = 0 THEN FZero
    ELSE FMax(MaxAmplitudeTo(mono, n - 1), FAbs(mono[n]))

max_amplitude(mono) == MaxAmplitudeTo(mono, Len(mono))

\* mono_data after the second loop: multiplied by 0.1f / max_amplitude when
\* 0 < max_amplitude < 0.1f.
Gain(mono) ==
    LET m == max_amplitude(mono)
    IN  IF FLess(FZero, m) /\ FLess(m, GainThreshold)
        THEN [i \in 1..Len(mono) |-> FMul(mono[i], FDiv(GainThreshold, m))]
        ELSE mono

\* A count of output samples rounded up.
resampled_frames_up(frames, rate) ==
    (frames * TargetRate + rate - 1) \div rate

\* (int)((float)frames * 16000 / original_sample_rate), rate > 0.
resampled_frames(frames, rate) == (frames * TargetRate) \div rate

\* resample_buffer after the third loop.
Resample(mono, rate) ==
    LET frames == Len(mono)
    IN  [i \in 1..resampled_frames(frames, rate) |->
            LET index == ((i - 1) * rate) \div TargetRate
                fraction == Frac(((i - 1) * rate) % TargetRate, TargetRate)
            IN  IF index >= frames - 1
                THEN mono[frames]
                ELSE FAdd(FMul(mono[index + 1], FSub(FOne, fraction)),
                          FMul(mono[index + 2], fraction))]

\* The indices of one output sample read without the test of the last frame.
ReadsAtAlways(index, frames) == {index, index + 1}

\* The third loop, one output sample: the indices of mono_data it reads.
ReadsAt(index, frames) ==
    IF index >= frames - 1 THEN {frames - 1} ELSE {index, index + 1}

\* The third loop: the indices of mono_data it reads for a packet of
\* `frames` frames.
MonoReads(frames, rate) ==
    UNION {ReadsAt((i * rate) \div TargetRate, frames) :
              i \in 0..(resampled_frames(frames, rate) - 1)}

\* resample_buffer_size after the test of lines 278-282, `size` before it.
resample_buffer_size(size, frames, rate) ==
    IF size < resampled_frames(frames, rate)
    THEN resampled_frames(frames, rate)
    ELSE size

\* audio_async_wasapi(len_ms) has been created, initialised and resumed; the
\* capture thread is in its loop with the mix format of the device.
DspInit ==
    /\ mix_rate \in MixRates
    /\ mix_channels \in 1..MaxChannels
    /\ data = << >> /\ given = << >> /\ taken = 0
    /\ len_ms_ = MaxLenMs
    /\ wasapi_handle_ = TRUE
    /\ running_ = TRUE
    /\ audio_buffer_ = [i \in DOMAIN NewStorage(len_ms_) |-> FZero]
    /\ buffer_pos_ = 0
    /\ buffer_len_ = 0
    /\ w_result = << >>
    /\ m_audio = NewStorage(len_ms_)
    /\ m_audio_pos = 0
    /\ m_audio_len = 0
    /\ s_result = << >>
    /\ w_overrun = FALSE
    /\ s_overrun = FALSE
    /\ crashed = FALSE
    /\ pushed = 0
    /\ since = 0
    /\ oversize = FALSE
    /\ op = NoOp
    /\ SchedIdle
    /\ VadIdle
    /\ StreamIdle
    /\ ApiIdle

\* A packet without AUDCLNT_BUFFERFLAGS_SILENT, the format's rate positive:
\* downmix, gain, resampling, callback_ (audio_callback_wrapper, under its
\* mutex), ReleaseBuffer.
DspPacket(d) ==
    /\ ~crashed
    /\ running_
    /\ mix_rate > 0
    /\ given' = Resample(Gain(Downmix(d, mix_channels)), mix_rate)
    /\ LET out == given'
           frames == Len(out)
           size == Size(audio_buffer_)
           bad == WasapiWriteOverruns(audio_buffer_, buffer_pos_, frames)
       IN  /\ data' = d
           /\ audio_buffer_' = WasapiWrite(audio_buffer_, buffer_pos_, out)
           /\ buffer_pos_' = WasapiNextPos(buffer_pos_, frames, size)
           /\ buffer_len_' = WasapiNextLen(buffer_pos_, buffer_len_, frames, size)
           /\ w_overrun' = (w_overrun \/ bad)
           /\ IF bad THEN crashed' \in BOOLEAN ELSE crashed' = crashed
           /\ oversize' = (oversize \/ frames > size)
           /\ pushed' = pushed + frames
    /\ taken' = taken + Len(d)
    /\ UNCHANGED <<mix_rate, mix_channels>>
    /\ UNCHANGED <<len_ms_, wasapi_handle_, running_>>
    /\ UNCHANGED ringOnly
    /\ UNCHANGED <<schedOnly, vadOnly, streamOnly, apiOnly>>

\* A packet of `frames` frames with AUDCLNT_BUFFERFLAGS_SILENT: released,
\* the callback not called.
DspSilent(frames) ==
    /\ ~crashed
    /\ running_
    /\ taken' = taken + frames * mix_channels
    /\ UNCHANGED <<mix_rate, mix_channels, data, given>>
    /\ UNCHANGED <<ringVars, schedOnly, vadOnly, streamOnly, apiOnly>>

\* A packet when the format's rate is 0: frames * 16000 / 0 is infinite (not
\* a number for no frames) and its conversion to int is undefined.  Where the
\* conversion gives the least int, new float[] throws and the process ends;
\* where it gives the greatest, the callback is handed that many copies of
\* the first sample and its memcpy runs past the storage; where it gives 0
\* (no frames), nothing is delivered.
DspZeroRate(d) ==
    /\ ~crashed
    /\ running_
    /\ mix_rate = 0
    /\ data' = d
    /\ taken' = taken + Len(d)
    /\ \E mono \in {Gain(Downmix(d, mix_channels))} :
       LET size == Size(audio_buffer_)
       IN  \/ /\ crashed' = TRUE
              /\ given' = << >>
              /\ UNCHANGED <<audio_buffer_, buffer_pos_, buffer_len_,
                             w_overrun, oversize, pushed>>
           \/ /\ Len(mono) = 0
              /\ given' = << >>
              /\ UNCHANGED <<audio_buffer_, buffer_pos_, buffer_len_,
                             w_overrun, oversize, pushed, crashed>>
           \/ /\ Len(mono) > 0
              /\ given' = [i \in 1..(size + 1) |-> mono[1]]
              /\ audio_buffer_' = [i \in DOMAIN audio_buffer_ |-> mono[1]]
              /\ buffer_pos_' \in 0..(size - 1)
              /\ buffer_len_' = size
              /\ w_overrun' = TRUE
              /\ oversize' = TRUE
              /\ pushed' = pushed + size + 1
              /\ crashed' \in BOOLEAN
    /\ UNCHANGED <<mix_rate, mix_channels>>
    /\ UNCHANGED <<len_ms_, wasapi_handle_, running_>>
    /\ UNCHANGED ringOnly
    /\ UNCHANGED <<schedOnly, vadOnly, streamOnly, apiOnly>>

DspNext ==
    \/ /\ mix_rate > 0 /\ ~crashed
       /\ \E d \in Packets(mix_channels, MaxData - taken) : DspPacket(d)
    \/ \E frames \in 1..((MaxData - taken) \div mix_channels) :
           DspSilent(frames)
    \/ /\ mix_rate = 0 /\ ~crashed
       /\ \E d \in Packets(mix_channels, MaxData - taken) : DspZeroRate(d)

SpecDsp == DspInit /\ [][DspNext]_vars

\* ------------------------------------- WasapiCapture behind the C
\* interface: one handle, a client that calls wasapi_capture_start,
\* wasapi_capture_start_process, wasapi_capture_stop and
\* wasapi_capture_destroy one after the other
\* The threads of the object that have not returned from capture_proc.
LiveThreads == {i \in 1..Len(threads) : threads[i] # "exited"}

\* wasapi_capture_create and wasapi_capture_initialize have succeeded: the
\* constructor left capture_thread_ and stop_capture_ unset, is_initialized_
\* is true, the stream is stopped.
ApiInit ==
    /\ threads = << >> /\ audio_started = FALSE /\ pc_client = "ready"
    /\ stop_capture_ \in BOOLEAN
    /\ capture_thread_ = "indeterminate"
    /\ capture_alive = TRUE
    /\ g_is_running = TRUE /\ queue = << >> /\ audio_data = << >>
    /\ pc_smain = "none" /\ pc_whisper = "none" /\ pc_cap = "none"
    /\ q_pushed = 0 /\ accepted = << >>
    \* the other programs do not run
    /\ len_ms_ = 1 /\ wasapi_handle_ = FALSE /\ running_ = FALSE
    /\ audio_buffer_ = NewStorage(len_ms_) /\ buffer_pos_ = 0 /\ buffer_len_ = 0
    /\ w_result = << >> /\ m_audio = NewStorage(len_ms_) /\ m_audio_pos = 0
    /\ m_audio_len = 0 /\ s_result = << >> /\ w_overrun = FALSE
    /\ s_overrun = FALSE /\ crashed = FALSE /\ pushed = 0 /\ since = 0
    /\ oversize = FALSE /\ op = NoOp
    /\ SchedIdle
    /\ VadIdle
    /\ DspIdle

\* The stream variables the client of the C interface leaves alone.
apiRest == <<g_is_running, queue, audio_data, pc_smain, pc_whisper, pc_cap,
             q_pushed, accepted>>

\* The client is between two calls on a handle it has not destroyed.
ClientReady == pc_client \in {"ready", "stopped"}

\* wasapi_capture_start, or wasapi_capture_start_process for a pid that has
\* a session: audio_client_->Start() succeeds and CreateThread makes a
\* thread, whose handle replaces capture_thread_.
ApiStart ==
    /\ ClientReady
    /\ Len(threads) < MaxThreads
    /\ AudioClientStart(audio_started)
    /\ audio_started' = TRUE
    /\ threads' = Append(threads, "entry")
    /\ capture_thread_' = "thread"
    /\ pc_client' = "ready"
    /\ UNCHANGED <<stop_capture_, capture_alive>>
    /\ UNCHANGED apiRest
    /\ UNCHANGED <<ringVars, schedOnly, vadOnly, dspOnly>>

\* The same calls returning 0: no session of the pid or Start() failed
\* (nothing changes), or Start() succeeded and CreateThread returned null.
ApiStartFail ==
    /\ ClientReady
    /\ \/ UNCHANGED <<audio_started, capture_thread_>>
       \/ /\ AudioClientStart(audio_started)
          /\ audio_started' = TRUE
          /\ capture_thread_' = "null"
    /\ pc_client' = "ready"
    /\ UNCHANGED <<threads, stop_capture_, capture_alive>>
    /\ UNCHANGED apiRest
    /\ UNCHANGED <<ringVars, schedOnly, vadOnly, dspOnly>>

\* wasapi_capture_stop, or wasapi_capture_destroy (whose cleanup calls
\* stop), with a thread handle in capture_thread_: stop_capture_ = true.
ApiStop(destroy) ==
    /\ ClientReady
    /\ capture_thread_ = "thread"
    /\ stop_capture_' = TRUE
    /\ pc_client' = IF destroy THEN "destroy_wait" ELSE "stop_wait"
    /\ UNCHANGED <<threads, audio_started, capture_thread_, capture_alive>>
    /\ UNCHANGED apiRest
    /\ UNCHANGED <<ringVars, schedOnly, vadOnly, dspOnly>>

\* stop: the wait on the handle returns, CloseHandle, capture_thread_ =
\* nullptr, audio_client_->Stop(); the call returns.
ApiStopWait ==
    /\ pc_client \in {"stop_wait", "destroy_wait"}
    /\ ThreadJoined(threads[Len(threads)])
    /\ capture_thread_' = "null"
    /\ audio_started' = FALSE
    /\ pc_client' = IF pc_client = "destroy_wait" THEN "destroyed"
                                                  ELSE "stopped"
    /\ capture_alive' = (pc_client = "stop_wait")
    /\ UNCHANGED <<threads, stop_capture_>>
    /\ UNCHANGED apiRest
    /\ UNCHANGED <<ringVars, schedOnly, vadOnly, dspOnly>>

\* The same calls with capture_thread_ null: audio_client_->Stop() only.
ApiStopNoThread(destroy) ==
    /\ ClientReady
    /\ capture_thread_ = "null"
    /\ audio_started' = FALSE
    /\ pc_client' = IF destroy THEN "destroyed" ELSE "stopped"
    /\ capture_alive' = ~destroy
    /\ UNCHANGED <<threads, stop_capture_, capture_thread_>>
    /\ UNCHANGED apiRest
    /\ UNCHANGED <<ringVars, schedOnly, vadOnly, dspOnly>>

\* The same calls with capture_thread_ never set: stop reads an
\* indeterminate handle.  It may be null; the wait on it may fail at once;
\* it may name an object that is never signalled, and stop does not return.
ApiStopUnset(destroy) ==
    /\ ClientReady
    /\ capture_thread_ = "indeterminate"
    /\ \/ /\ stop_capture_' \in {stop_capture_, TRUE}
          /\ capture_thread_' = "null"
          /\ audio_started' = FALSE
          /\ pc_client' = IF destroy THEN "destroyed" ELSE "stopped"
          /\ capture_alive' = ~destroy
       \/ /\ stop_capture_' = TRUE
          /\ pc_client' = "hung"
          /\ UNCHANGED <<capture_thread_, audio_started, capture_alive>>
    /\ UNCHANGED threads
    /\ UNCHANGED apiRest
    /\ UNCHANGED <<ringVars, schedOnly, vadOnly, dspOnly>>

\* capture_proc of thread i: stop_capture_ = false on entry.
ApiCapEntry(i) ==
    /\ threads[i] = "entry"
    /\ stop_capture_' = FALSE
    /\ threads' = [threads EXCEPT ![i] = "loop"]
    /\ UNCHANGED <<audio_started, pc_client, capture_thread_, capture_alive>>
    /\ UNCHANGED apiRest
    /\ UNCHANGED <<ringVars, schedOnly, vadOnly, dspOnly>>

\* capture_proc of thread i: a packet is handed to callback_, which returns.
ApiCapCallback(i) ==
    /\ \/ /\ threads[i] = "loop"
          /\ ~stop_capture_
          /\ threads' = [threads EXCEPT ![i] = "callback"]
       \/ /\ threads[i] = "callback"
          /\ threads' = [threads EXCEPT ![i] = "loop"]
    /\ UNCHANGED <<audio_started, pc_client, stop_capture_, capture_thread_,
                   capture_alive>>
    /\ UNCHANGED apiRest
    /\ UNCHANGED <<ringVars, schedOnly, vadOnly, dspOnly>>

\* capture_proc of thread i: the loop ends, on stop_capture_ or on a failed
\* call of the capture client; the thread returns.
ApiCapExit(i) ==
    /\ threads[i] = "loop"
    /\ threads' = [threads EXCEPT ![i] = "exited"]
    /\ UNCHANGED <<audio_started, pc_client, stop_capture_, capture_thread_,
                   capture_alive>>
    /\ UNCHANGED apiRest
    /\ UNCHANGED <<ringVars, schedOnly, vadOnly, dspOnly>>

ApiNext ==
    \/ ApiStart
    \/ ApiStartFail
    \/ \E destroy \in BOOLEAN : ApiStop(destroy)
    \/ ApiStopWait
    \/ \E destroy \in BOOLEAN : ApiStopNoThread(destroy)
    \/ \E destroy \in BOOLEAN : ApiStopUnset(destroy)
    \/ \E i \in 1..Len(threads) : ApiCapEntry(i)
    \/ \E i \in 1..Len(threads) : ApiCapCallback(i)
    \/ \E i \in 1..Len(threads) : ApiCapExit(i)

SpecApi == ApiInit /\ [][ApiNext]_vars

\* ------------------------------------------------- the ring buffer's claims
capacity == Size(audio_buffer_)

\* What get(capacity) would return in the current state.
Newest == WasapiGet(audio_buffer_, buffer_pos_, buffer_len_, len_ms_, len_ms_)

\* C1: on a running capture, after pushes of at most capacity samples each
\* and clears, validLen is the number of samples pushed since the last clear,
\* capped at the capacity, and get(n) returns the most recent min(n, validLen)
\* pushed samples, oldest first: across the end of the storage array too, and
\* truncated when n exceeds validLen.
T_C1 ==
    (op.name = "get" /\ wasapi_handle_ /\ running_ /\ ~oversize) =>
        /\ buffer_len_ = Min(since, capacity)
        /\ LET k == Min(op.n, buffer_len_)
           IN  w_result = Run(pushed - k + 1, k)

\* C1, its case: a get asked for more than validLen, truncated to a full
\* buffer that is read across the end of the storage array.
W_C1 ==
    /\ op.name = "get" /\ running_ /\ ~oversize
    /\ op.n > buffer_len_
    /\ Len(w_result) = capacity
    /\ 0 < buffer_pos_ /\ buffer_pos_ < Len(w_result)
    /\ since < pushed

\* C2: FIFO eviction.  Once more than capacity samples were pushed, in one
\* call or several, get(capacity) returns the last capacity samples pushed,
\* in order, and no get returns any older sample.
CE_C2 ==
    (op.name = "get" /\ running_ /\ since > capacity) =>
        /\ op.n = capacity => w_result = Run(pushed - capacity + 1, capacity)
        /\ \A i \in 1..Len(w_result) : w_result[i] > pushed - capacity

\* C6: in every state of either ring buffer the write position is inside
\* the storage array and the valid length is at most the capacity.
T_C6 ==
    /\ 0 <= buffer_pos_ /\ buffer_pos_ < capacity
    /\ 0 <= buffer_len_ /\ buffer_len_ <= capacity
    /\ 0 <= m_audio_pos /\ m_audio_pos < Size(m_audio)
    /\ 0 <= m_audio_len /\ m_audio_len <= Size(m_audio)

\* C6, its case: a single push of more than capacity samples has wrapped
\* both write positions.
W_C6 ==
    /\ op.name = "callback" /\ op.n > capacity
    /\ buffer_len_ = capacity /\ buffer_pos_ > 0
    /\ m_audio_len = Size(m_audio) /\ m_audio_pos > 0

\* C7: a single push of more than capacity samples writes inside the
\* storage array only, leaves validLen at the capacity, and get(capacity)
\* then returns the last capacity samples of that push, in order.
CE_C7 ==
    (op.name = "callback" /\ op.n > capacity) =>
        /\ ~w_overrun
        /\ buffer_len_ = capacity
        /\ Newest = Run(pushed - capacity + 1, capacity)

\* C8: a push of n samples moves the write position to
\* (writePos + n) mod capacity and validLen to min(validLen + n, capacity).
T_C8 ==
    [][op'.name = "callback" =>
          /\ buffer_pos_' = (buffer_pos_ + op'.n) % capacity
          /\ buffer_len_' = Min(buffer_len_ + op'.n, capacity)]_ringVars

\* C8, its case: a push that ended exactly at the end of the storage array
\* (writePos + n = capacity) and filled the buffer.
W_C8 ==
    /\ op.name = "callback" /\ op.n > 0 /\ ~oversize
    /\ buffer_pos_ = 0 /\ buffer_len_ = capacity
    /\ since = capacity /\ capacity > 1 /\ op.n < capacity

\* C9 as stated: clear() sets validLen to 0 and leaves writePos unchanged
\* (here for a capture that is running, where clear() acts).
CE_C9 ==
    [][(op'.name = "clear" /\ wasapi_handle_ /\ running_) =>
          /\ buffer_len_' = 0 /\ buffer_pos_' = buffer_pos_
          /\ m_audio_len' = 0 /\ m_audio_pos' = m_audio_pos]_ringVars

\* C9 as amended: clear() sets validLen to 0 and writePos to 0 and leaves
\* the stored samples alone; audio_async_wasapi::clear on a capture that is
\* not running changes nothing.
T_C9 ==
    [][op'.name = "clear" =>
          /\ m_audio_len' = 0 /\ m_audio_pos' = 0
          /\ IF wasapi_handle_ /\ running_
             THEN buffer_len_' = 0 /\ buffer_pos_' = 0
             ELSE UNCHANGED <<buffer_len_, buffer_pos_>>
          /\ UNCHANGED <<audio_buffer_, m_audio>>]_ringVars

\* C9, its case: a clear that found one sample stored and the write position
\* at 1.
W_C9 ==
    /\ op.name = "clear" /\ running_
    /\ pushed = 1 /\ since = 0 /\ capacity > 1
    /\ buffer_pos_ = 0 /\ buffer_len_ = 0
    /\ m_audio_pos = 0 /\ m_audio_len = 0

\* ------------------------------------------------- the scheduler's claims
InPush == pc_capture = "index"
InGet == pc_main = "get_cs"
InClear == pc_main = "clear_cs"

\* C3 (here for runs in which no packet exceeded the capacity): the new
\* samples of the windows dispatched so far, in dispatch order, are the
\* samples pushed, from the first on, none missing and none twice.
CE_C3 == ~oversize => dispatched = Run(1, Len(dispatched))

\* C4: what get returned is a contiguous, ordered run of the pushed stream
\* that ends at the last sample whose push had completed when get took the
\* lock.
CE_C4 ==
    LET n == Len(pcmf32_new)
    IN  pc_main # "get_cs" => pcmf32_new = Run(get_mark - n + 1, n)

\* C5: at most one thread is inside push, get or clear; the mutex is held
\* exactly while a thread is inside one of them, so never while a packet is
\* resampled or a window is composed or processed; a push that wants the lock
\* while the main thread is outside get and clear can take it at once.
T_C5 ==
    /\ ~(InPush /\ (InGet \/ InClear))
    /\ (mutex_ = "capture") <=> InPush
    /\ (mutex_ = "main") <=> (InGet \/ InClear)
    /\ (~crashed /\ pc_capture = "call" /\ ~InGet /\ ~InClear)
          => ENABLED CbLockWrite

\* C5, its case: the capture thread is inside a push while the main thread
\* is processing a window.
W_C5 == InPush /\ pc_main = "infer" /\ Len(pending) > 0 /\ ~oversize

\* The start-up period: the dispatches before the first hard segmentation
\* boundary, while pcmf32_old still grows from the empty vector.  From the
\* first boundary on the window lengths repeat every n_new_line dispatches.
StartUp == n_new_line

BoundaryEvery == Max(1, (length_ms \div step_ms) - 1)

\* The main thread is between the end of one dispatch and the composition
\* of the next window: pcmf32 is the window last dispatched.
BetweenDispatches ==
    /\ n_iter > 0
    /\ pc_main \in {"loop", "get", "get_cs", "sleep", "clear", "clear_cs",
                     "compose"}

CE_C12 ==
    BetweenDispatches =>
        pcmf32_old = SubSeq(pcmf32, Len(pcmf32) - n_samples_keep + 1, Len(pcmf32))

\* C12 as amended: after a dispatch that is a hard segmentation boundary
\* pendingOld is the trailing nSamplesKeep samples of the window just
\* dispatched; after any other dispatch it is that whole window.
T_C12 ==
    BetweenDispatches =>
        pcmf32_old = IF n_iter % BoundaryEvery = 0
                     THEN SubSeq(pcmf32, Len(pcmf32) - n_samples_keep + 1,
                                 Len(pcmf32))
                     ELSE pcmf32

\* C12, its case: after a boundary dispatch whose window was longer than
\* nSamplesKeep, and (before it) a dispatch that was no boundary.
W_C12 ==
    /\ BetweenDispatches /\ ~oversize
    /\ n_iter % BoundaryEvery = 0 /\ BoundaryEvery > 1
    /\ Len(pcmf32) > n_samples_keep /\ n_samples_keep > 0
    /\ Len(pcmf32_old) = n_samples_keep

\* C13: the hard segmentation boundary is taken exactly after dispatch
\* N, 2N, 3N, ... with N = max(1, lengthMs/stepMs - 1); after a boundary
\* pendingOld is the trailing nSamplesKeep samples of the window; without
\* context retention every dispatch is handed the empty prompt; with it the
\* prompt handed differs from the one handed before only directly after a
\* boundary.
T_C13 ==
    /\ boundaries = [k \in 1..(n_iter \div BoundaryEvery) |-> k * BoundaryEvery]
    /\ (BetweenDispatches /\ Len(boundaries) > 0
           /\ boundaries[Len(boundaries)] = n_iter)
          => /\ Len(pcmf32_old) = n_samples_keep
             /\ \A i \in 1..n_samples_keep :
                   pcmf32_old[i] = pcmf32[Len(pcmf32) - n_samples_keep + i]
    /\ no_context => \A k \in 1..Len(handed) : handed[k] = << >>
    /\ \A k \in 1..Len(handed) :
          handed[k] # (IF k = 1 THEN << >> ELSE handed[k - 1])
             => (k - 1) % BoundaryEvery = 0

\* C13, its case: context is kept, N = 2, and the fifth dispatch is handed
\* the tokens of the fourth result after the third and fourth were handed
\* those of the second.
W_C13 ==
    /\ ~no_context /\ BoundaryEvery = 2 /\ ~oversize
    /\ boundaries = <<2, 4>>
    /\ Len(handed) = 5
    /\ handed[2] = << >> /\ handed[3] = <<2>> /\ handed[4] = <<2>>
    /\ handed[5] = <<4>>

\* C14: when get finds more than 2 x nSamplesStep samples accumulated in
\* the ring buffer, the scheduler clears the buffer and goes back to
\* accumulating without composing a window from what it fetched (here for
\* runs in which no packet exceeded the capacity).
CE_C14 ==
    [][(pc_main = "get_cs" /\ pc_main' # "get_cs" /\ ~oversize
          /\ buffer_len_ > 2 * n_samples_step)
         => (pc_main' = "clear" /\ after_clear' = "get")]_vars

\* C15: a failure of whisper_full does not end the consumer loop.
CE_C15 == pc_main \notin {"failed", "exit7"}

\* The main thread has left the audio loop.
Stopped == pc_main \in {"pause", "done", "failed", "exit7"}

\* C16: once ESC is held down the audio loop is left, whatever the capture
\* thread delivers (here with a capture that did start, the process not
\* having ended abnormally).
CE_C16 ==
    (stop_requested /\ ~resume_failed /\ ~crashed) ~> (Stopped \/ crashed)

\* C18 (stream_app): after audio.init or audio.resume failed there is no
\* consumer tick: the main thread is never in the audio loop.
CE_C18 ==
    (resume_failed \/ pc_main = "exit3") =>
        pc_main \in {"exit3", "done", "exit7"}

\* ------------------------------------------------- the VAD mode's claims
\* energyLast > threshold x energyAll for the window fetched for the gate,
\* energyLast the mean of the trailing VadLastMs and energyAll that of the
\* whole window, both means written as sums over a common denominator.
SpeechDetected ==
    LET n == Len(pcmf32_new)
        n_last == (WHISPER_SAMPLE_RATE * VadLastMs) \div 1000
    IN  SumAbs(pcmf32_new, n - n_last + 1, n) * n * vad_thold.den
          > vad_thold.num * SumAbs(pcmf32_new, 1, n) * n_last

\* C19: a polling cycle goes on to fetch the lengthMs window and dispatch it
\* exactly when speech is detected on the window fetched for the gate
\* (here for a window longer than the trailing part).
CE_C19 ==
    (vad_answer # "none"
       /\ Len(pcmf32_new) > (WHISPER_SAMPLE_RATE * VadLastMs) \div 1000)
      => ((vad_answer = "true") <=> SpeechDetected)

\* C20: when the window fetched for the gate is all zero the cycle does not
\* go on to dispatch, whatever the threshold.
CE_C20 ==
    (vad_answer # "none" /\ \A i \in 1..Len(pcmf32_new) : pcmf32_new[i] = 0)
      => vad_answer = "false"

\* ------------------------------------------------- the pipeline's claims
\* C17: the capture object is destroyed and main returns only after the
\* whisper thread was joined and the capture thread has returned; the
\* capture is stopped only after the whisper thread was joined.
T_C17 ==
    /\ (~capture_alive \/ pc_smain = "returned")
          => /\ pc_whisper \in {"none", "exited"}
             /\ pc_cap \in {"none", "exited"}
    /\ pc_smain \in {"stop", "stop_wait"} => pc_whisper = "exited"
    /\ pc_smain = "returned" => ~capture_alive

\* C17, its case: main has returned after a run in which the capture thread
\* queued samples and the whisper thread took them.
W_C17 ==
    /\ pc_smain = "returned" /\ pc_cap = "exited" /\ pc_whisper = "exited"
    /\ q_pushed > 0 /\ Len(audio_data) > 0

\* ---------------------------------------------------------------- C21
\* The trailing part of vad_simple, in samples.
VadLast == (WHISPER_SAMPLE_RATE * VadLastMs) \div 1000

\* C21: when the samples fetched for the gate are no more than the trailing
\* part (none at all included), vad_simple answers false and the loop goes
\* back to its top: no window is fetched, nothing is handed to the engine
\* and n_iter stays.
T_C21 ==
    [][(pc_main = "vad_gate" /\ Len(pcmf32_new) <= VadLast /\ ~crashed)
          => /\ pc_main' \in {"vad_gate", "loop"}
             /\ pc_main' = "loop" => vad_answer' = "false"
             /\ handed' = handed
             /\ pcmf32' = pcmf32
             /\ n_iter' = n_iter]_vars

\* The gate has answered false for exactly VadLast samples, one of them
\* loud, under a threshold with which the energies would have answered true.
W_C21 ==
    /\ vad_answer = "false"
    /\ pc_main = "loop"
    /\ Len(pcmf32_new) = VadLast
    /\ SumAbs(pcmf32_new, 1, Len(pcmf32_new)) > 0
    /\ vad_thold.num >= vad_thold.den

\* ---------------------------------------------------------------- C22
\* C22: vad_simple is called at most once per 2000 ms of wall time: a call
\* comes no sooner than 2000 ms after the call before it.
CE_C22 ==
    [][(pc_main = "vad_gate" /\ t_gate' # t_gate /\ t_gate >= 0)
          => clock - t_gate >= VadWindowMs]_vars

\* ---------------------------------------------------------------- C23
\* The ring buffer of audio_async_wasapi is left as it was by a step.
RingUntouched ==
    /\ audio_buffer_' = audio_buffer_
    /\ buffer_pos_' = buffer_pos_
    /\ buffer_len_' = buffer_len_
    /\ w_overrun' = w_overrun
    /\ crashed' = crashed

\* C23: a packet of no frames gives the callback no samples, and a callback
\* with no samples (from a packet of no frames, or of too few frames to give
\* one sample at the target rate) leaves buffer_pos_, buffer_len_ and the
\* stored samples as they were, with no overrun and no abnormal end.
T_C23 ==
    [][mix_rate > 0
          => /\ (data' = << >>) => (given' = << >> /\ RingUntouched)
             /\ (taken' # taken /\ given' = << >>) => RingUntouched]_vars

\* A packet of no frames has been processed after a packet that left
\* samples in the buffer.
W_C23 ==
    /\ mix_rate > 0
    /\ data = << >> /\ given = << >>
    /\ taken > 0
    /\ buffer_len_ > 0 /\ buffer_len_ < Size(audio_buffer_)
    /\ ~crashed

\* ---------------------------------------------------------------- C24
\* C24: while the format's sample rate is 0, a packet changes nothing in the
\* ring buffer and the capture loop goes on.
CE_C24 == [][mix_rate <= 0 => RingUntouched]_vars

\* ---------------------------------------------------------------- C25
\* C25: a packet whose channels all hold the constant v is delivered to the
\* callback as v.
CE_C25 ==
    (/\ mix_rate > 0
     /\ Len(data) > 0
     /\ \A i \in 1..Len(data) : data[i] = data[1])
        => \A j \in 1..Len(given) : given[j] = data[1]

\* ---------------------------------------------------------------- C26
\* C26: no gain is applied: the callback is given the resampled downmix of
\* the packet, also when the largest amplitude of the downmix is below 0.1.
CE_C26 ==
    mix_rate > 0
        => given = Resample(Downmix(data, mix_channels), mix_rate)

\* ---------------------------------------------------------------- C27
\* C27: of inLen samples mono the resampler emits outLen =
\* floor(inLen * targetRate / sourceRate); out[i] is mono[inLen-1] when
\* idx = floor(i * sourceRate / targetRate) >= inLen - 1, and otherwise
\* mono[idx] * (1 - frac) + mono[idx+1] * frac with frac the fractional part
\* of i * sourceRate / targetRate; when sourceRate is r times targetRate,
\* out[i] = mono[i*r].  (Indices from 0; mono is what the gain loop leaves.)
T_C27 ==
    mix_rate > 0 =>
        \A mono \in {Gain(Downmix(data, mix_channels))} :
            LET inLen == Len(mono)
                outLen == (inLen * TargetRate) \div mix_rate
            IN  /\ Len(given) = outLen
                /\ \A i \in 0..(outLen - 1) :
                      LET idx == (i * mix_rate) \div TargetRate
                          rem == (i * mix_rate) % TargetRate
                      IN  /\ idx >= inLen - 1 => given[i + 1] = mono[inLen]
                          /\ idx < inLen - 1 =>
                                FMul(given[i + 1], Frac(TargetRate, 1))
                                  = FAdd(FMul(mono[idx + 1],
                                              Frac(TargetRate - rem, 1)),
                                         FMul(mono[idx + 2], Frac(rem, 1)))
                          /\ mix_rate % TargetRate = 0 =>
                                given[i + 1]
                                  = mono[i * (mix_rate \div TargetRate) + 1]

\* The samples 0, 1, 2, 3 (in units of 1/SampleUnit) of one channel at twice
\* the target rate have been delivered as 0, 2.
W_C27 ==
    /\ mix_rate = 2 * TargetRate
    /\ mix_channels = 1
    /\ data = <<Frac(0, SampleUnit), Frac(1, SampleUnit), Frac(2, SampleUnit),
               Frac(3, SampleUnit)>>
    /\ given = <<Frac(0, SampleUnit), Frac(2, SampleUnit)>>

\* ---------------------------------------------------------------- C28
\* C28: when the format's rate is the target rate, the callback is given the
\* downmix of the packet, sample for sample.
CE_C28 == mix_rate = TargetRate => given = Downmix(data, mix_channels)

\* ---------------------------------------------------------------- C29
\* The most samples audio.get(step_ms) returns: (sample_rate_ * ms) / 1000.
GetStepMost == (sample_rate_ * step_ms) \div 1000

\* C29 as stated: every window composed in fixed-step mode has exactly
\* n_samples_step new samples.
CE_C29 == pc_main = "compose" => Len(pcmf32_new) = n_samples_step

\* C29: in fixed-step mode get(step_ms) never returns more than
\* sample_rate * step_ms / 1000 samples, which is n_samples_step or one more
\* (n_samples_step is truncated from a product of doubles), and so never
\* more than 2 * n_samples_step; a window is composed only from at least
\* n_samples_step new samples.
T_C29 ==
    ~use_vad =>
        /\ GetStepMost <= n_samples_step + 1
        /\ Len(pcmf32_new) <= GetStepMost
        /\ ~TooMuchNew(Len(pcmf32_new), n_samples_step)
        /\ pc_main = "compose" => Len(pcmf32_new) >= n_samples_step

\* A window is composed from one sample more than n_samples_step.
W_C29 ==
    /\ pc_main = "compose"
    /\ n_samples_step >= 2
    /\ Len(pcmf32_new) = n_samples_step + 1

\* ---------------------------------------------------------------- C30
\* C30: WasapiCapture::stop, called after start has succeeded, returns: once
\* it has set the stop flag and waits on the thread handle, the wait ends.
CE_C30 == (pc_smain = "stop_wait") ~> (pc_smain = "destroy")


\* ------------------------------------------------- the C interface's claims
\* C31: whatever calls of wasapi_capture_start, wasapi_capture_start_process
\* and wasapi_capture_stop the client makes on one handle, at most one
\* capture thread of the handle has not returned, and once stop or destroy
\* has returned none is left.
T_C31 ==
    /\ Cardinality(LiveThreads) <= 1
    /\ pc_client \in {"stopped", "destroyed"} => LiveThreads = {}

\* A second stop has returned after a second start.
W_C31 == pc_client = "stopped" /\ Len(threads) = 2


\* C32: get changes neither the write position, nor the valid length, nor a
\* stored sample, whatever duration it is asked for, and a get that follows
\* a get for the same number of samples returns the same result.
T_C32 ==
    [][op'.name = "get" =>
          /\ audio_buffer_' = audio_buffer_
          /\ buffer_pos_' = buffer_pos_
          /\ buffer_len_' = buffer_len_
          /\ op = op' => w_result' = w_result]_vars

\* A get has returned the whole of a buffer that has wrapped.
W_C32 ==
    /\ op.name = "get" /\ running_
    /\ Len(w_result) = capacity /\ buffer_pos_ > 0


\* C33: while audio_async_wasapi has no handle or does not run, clear
\* returns false and changes neither the write position, nor the valid
\* length, nor a stored sample, and get returns an empty result.
T_C33 ==
    [][(~wasapi_handle_ \/ ~running_) =>
          /\ op'.name = "clear" =>
                /\ ~op'.ret
                /\ audio_buffer_' = audio_buffer_
                /\ buffer_pos_' = buffer_pos_
                /\ buffer_len_' = buffer_len_
          /\ op'.name = "get" => w_result' = << >>]_vars

\* clear has returned false on a paused capture whose buffer holds samples.
W_C33 ==
    /\ op.name = "clear" /\ ~op.ret
    /\ wasapi_handle_ /\ ~running_
    /\ buffer_len_ > 0 /\ buffer_pos_ > 0

\* C34: running_ becomes true only by a resume that returns true and false
\* only by a pause that returns true, and each of them changes it; a resume
\* on a running capture or without a handle returns false and makes no
\* thread; a pause on a capture that does not run returns false; a resume
\* that returns false leaves running_ as it was; an init with a handle
\* returns true and keeps the handle.
T_C34 ==
    [][/\ (running_' /\ ~running_) <=> (op'.name = "resume" /\ op'.ret)
       /\ (~running_' /\ running_) <=> (op'.name = "pause" /\ op'.ret)
       /\ (op'.name = "resume" /\ (running_ \/ ~wasapi_handle_)) =>
             ~op'.ret /\ threads' = threads
       /\ (op'.name = "pause" /\ ~running_) => ~op'.ret
       /\ (op'.name = "resume" /\ ~op'.ret) => running_' = running_
       /\ (op'.name = "init" /\ wasapi_handle_) =>
             op'.ret /\ wasapi_handle_']_vars

\* A resume on a running capture has returned false, its one thread left.
W_C34 ==
    /\ op.name = "resume" /\ ~op.ret
    /\ running_ /\ Len(threads) = 1 /\ pushed > 0


\* ------------------------------------------------- the queue pipeline's claims
\* Whether s is the end of t.
IsSuffix(s, t) ==
    /\ Len(s) <= Len(t)
    /\ \A i \in 1..Len(s) : s[i] = t[Len(t) - Len(s) + i]

CE_C36 ==
    [][/\ (pc_whisper = "test" /\ pc_whisper' = "infer") =>
             Len(audio_data) >= q_n_samples_len
       /\ (/\ pc_whisper \in {"test", "infer"} /\ pc_whisper' = "loop"
           /\ Len(audio_data) >= q_n_samples_len) =>
             Len(audio_data') <= Max(0, q_n_samples_keep)]_vars


\* ------------------------------------------------- the two buffers compared
\* The two buffers hold the same samples at the same write position, and
\* audio_async counts at least as many valid samples as audio_async_wasapi:
\* what the same pushes and clears on a running device, none larger than
\* the capacity, leave behind.
SameRing ==
    /\ m_audio = audio_buffer_
    /\ m_audio_pos = buffer_pos_
    /\ buffer_len_ <= m_audio_len

\* C37: on an open, running device, after the same pushes and clears, a get
\* returns the same samples from audio_async_wasapi and from audio_async.
CE_C37 ==
    (op.name = "get" /\ wasapi_handle_ /\ running_ /\ ~oversize /\ SameRing)
        => w_result = s_result

\* ------------------------------------------------- WasapiCapture never started
\* C38: stop or destroy on a WasapiCapture for which no thread was ever
\* made waits on no thread handle and returns, whatever the constructor
\* left in the object.
CE_C38 == threads = << >> => pc_client # "hung"


\* ------------------------------------------------- the resampling loop
\* C39: for a packet of one frame or more at a positive rate, the
\* resampling loop reads mono_data only at 0 .. frames - 1 and writes
\* resample_buffer only at 0 .. resampled_frames - 1, which lies inside the
\* buffer whatever size it had before the packet.
T_C39 ==
    (mix_rate > 0 /\ Len(data) > 0) =>
        LET frames == Len(data) \div mix_channels
        IN  /\ MonoReads(frames, mix_rate) \subseteq 0..(frames - 1)
            /\ DOMAIN given = 1..resampled_frames(frames, mix_rate)
            /\ \A size \in 0..(2 * MaxData) :
                  resampled_frames(frames, mix_rate)
                      <= resample_buffer_size(size, frames, mix_rate)

\* Two frames of two channels at half the target rate have become four
\* samples, the last two of them copies of the last frame.
W_C39 ==
    /\ 2 * mix_rate = TargetRate /\ mix_channels = 2
    /\ Len(data) = 4 /\ Len(given) = 4
    /\ given[3] = given[4] /\ given[1] # given[3]

=============================================================================
